---- MODULE Spec2Model ----
(***************************************************************************)
(* sfcc-site-exporter: the configuration model (catalog, validateConfig,   *)
(* filterEnabledDataUnits), the command compiler (buildExportArgs) and the *)
(* export command's control flow (exportCommand, runInteractivePrompts).   *)
(***************************************************************************)
EXTENDS Integers, Sequences, FiniteSets, TLC

VARIABLES
    pc,          \* position of the operation under way
    config,      \* the configuration object (parsed file or wizard result)
    errors,      \* validateConfig's errors array
    dataUnits,   \* the data-units tree given to the filter / the compiler
    filtered,    \* filterEnabledDataUnits' return value
    written,     \* the JSON text read (its members in written order), or no file
    exportOptions, \* the options object given to buildExportArgs
    args,        \* buildExportArgs' return value
    options,     \* the export command's parsed command-line options
    spawned,     \* the argument arrays of the b2c children spawned so far
    children,    \* the number of children spawned and not yet closed
    exitCode,    \* the process exit code, once exited
    log,         \* the steps the export command has completed, with outcome
    wiz,         \* the local variables of runInteractivePrompts
    saved,       \* the text written to the file the wizard was asked to save
    cmdLine,     \* the command line: the entry point and the flags given
    outcome,     \* the result of the child whose handling is under way
    thrown,      \* the message of the Error thrown, or null
    fsOps,       \* the file-system calls made so far
    heap         \* the objects allocated: heap[a] holds the entries of object a

ioVars == <<cmdLine, outcome, thrown, fsOps, heap>>

cmdVars == <<options, spawned, children, exitCode, log, wiz, saved, ioVars>>

vars == <<pc, config, errors, dataUnits, filtered, written, exportOptions, args,
          options, spawned, children, exitCode, log, wiz, saved,
          cmdLine, outcome, thrown, fsOps, heap>>

(***************************************************************************)
(* JavaScript values.  One record shape for every value: t is the type     *)
(* tag, b the payload of a boolean, s the text of a string or the decimal  *)
(* text of a number, e the own enumerable entries of an object in          *)
(* Object.entries order.  A text is the sequence of its pieces ("" is the  *)
(* empty sequence); a key of an object is one piece.                       *)
(***************************************************************************)
Undefined == [t |-> "undefined", b |-> FALSE, s |-> <<>>, e |-> <<>>]

Null == [t |-> "null", b |-> FALSE, s |-> <<>>, e |-> <<>>]

Bool(b) == [t |-> "boolean", b |-> b, s |-> <<>>, e |-> <<>>]

Num(s) == [t |-> "number", b |-> FALSE, s |-> s, e |-> <<>>]

Str(s) == [t |-> "string", b |-> FALSE, s |-> s, e |-> <<>>]

Obj(e) == [t |-> "object", b |-> FALSE, s |-> <<>>, e |-> e]

\* an array: its elements are the entries under the keys "0", "1", ...
Arr(items) ==
    [t |-> "array", b |-> FALSE, s |-> <<>>,
     e |-> [i \in 1..Len(items) |-> [k |-> ToString(i - 1), v |-> items[i]]]]

Entry(k, v) == [k |-> k, v |-> v]

\* typeof v
typeof(v) == IF v.t \in {"null", "array"} THEN "object" ELSE v.t

\* ToBoolean(v): the test of `if (v)`, `!v`, `a || b`
Truthy(v) ==
    CASE v.t = "boolean" -> v.b
      [] v.t \in {"object", "array"} -> TRUE
      [] v.t = "string" -> v.s # <<>>
      [] v.t = "number" -> v.s # <<"0">>
      [] OTHER -> FALSE

\* Object.entries(v), Object.keys(v), Object.values(v); empty for a boolean,
\* a number, null-free primitives (the model has no string with entries).
ObjectEntries(v) == v.e

ObjectKeys(v) == [i \in 1..Len(v.e) |-> v.e[i].k]

ObjectValues(v) == [i \in 1..Len(v.e) |-> v.e[i].v]

HasKey(o, k) == \E i \in 1..Len(o.e) : o.e[i].k = k

\* o[k] / o.k: the own property, or undefined
Get(o, k) ==
    IF HasKey(o, k)
    THEN o.e[CHOOSE i \in 1..Len(o.e) : o.e[i].k = k].v
    ELSE Undefined

\* The keys of the model that are canonical array indices ("7", "12"), in
\* ascending numeric order; every other key is an ordinary string key.
ArrayIndexKeys == <<"7", "12">>

IsArrayIndex(k) == \E i \in 1..Len(ArrayIndexKeys) : ArrayIndexKeys[i] = k

IndexRank(k) == CHOOSE i \in 1..Len(ArrayIndexKeys) : ArrayIndexKeys[i] = k

\* The position a new own key k takes in o's enumeration order: integer-like
\* keys ascending before every string key, string keys in creation order.
InsertPos(e, k) ==
    IF IsArrayIndex(k)
    THEN 1 + Cardinality({i \in 1..Len(e) :
                 IsArrayIndex(e[i].k) /\ IndexRank(e[i].k) < IndexRank(k)})
    ELSE Len(e) + 1

\* o[k] = v
ObjectSet(o, k, v) ==
    IF HasKey(o, k)
    THEN Obj([i \in 1..Len(o.e) |-> IF o.e[i].k = k THEN Entry(k, v) ELSE o.e[i]])
    ELSE LET p == InsertPos(o.e, k)
         IN Obj(SubSeq(o.e, 1, p - 1) \o <<Entry(k, v)>> \o SubSeq(o.e, p, Len(o.e)))

\* JSON.parse of an object literal whose members are written in the order
\* of text.e (a repeated member overwrites, keeping the first position).
RECURSIVE JSONparse(_)
RECURSIVE ParseMembers(_, _)
ParseMembers(members, acc) ==
    IF members = <<>> THEN acc
    ELSE ParseMembers(Tail(members),
                      ObjectSet(acc, Head(members).k, JSONparse(Head(members).v)))

JSONparse(text) ==
    IF text.t = "object" THEN ParseMembers(text.e, Obj(<<>>)) ELSE text

\* JSON.stringify: members in enumeration order, undefined members omitted.
RECURSIVE JSONstringify(_)
RECURSIVE StringifyMembers(_)
StringifyMembers(e) ==
    IF e = <<>> THEN <<>>
    ELSE (IF Head(e).v.t = "undefined" THEN <<>>
          ELSE <<Entry(Head(e).k, JSONstringify(Head(e).v))>>)
         \o StringifyMembers(Tail(e))

JSONstringify(v) ==
    IF v.t = "object" THEN Obj(StringifyMembers(v.e)) ELSE v

Range(seq) == {seq[i] : i \in 1..Len(seq)}

\* array.includes(x)
Includes(seq, x) == \E i \in 1..Len(seq) : seq[i] = x

(***************************************************************************)
(* Data-unit catalog                                                       *)
(***************************************************************************)
\* a site catalog that lists content twice
siteDataOptionsRepeated ==
    <<"all", "content", "coupons", "content", "ocapi_settings", "sorting_rules">>

siteDataOptions ==
    <<"all", "ab_tests", "active_data_feeds", "cache_settings",
      "campaigns_and_promotions", "content", "coupons", "custom_objects",
      "customer_cdn_settings", "customer_groups",
      "distributed_commerce_extensions", "dynamic_file_resources",
      "gift_certificates", "ocapi_settings", "payment_methods",
      "payment_processors", "redirect_urls", "search_settings", "shipping",
      "site_descriptor", "site_preferences", "sitemap_settings", "slots",
      "sorting_rules", "source_codes", "static_dynamic_alias_mappings",
      "stores", "tax", "url_rules">>

globalDataOptions ==
    <<"access_roles", "all", "csc_settings", "csrf_whitelists",
      "custom_preference_groups", "custom_quota_settings", "custom_types",
      "geolocations", "global_custom_objects", "job_schedules",
      "job_schedules_deprecated", "locales", "meta_data", "oauth_providers",
      "ocapi_settings", "page_meta_tags", "preferences",
      "price_adjustment_limits", "services", "sorting_rules",
      "static_resources", "system_type_definitions", "users",
      "webdav_client_permissions">>

validDataUnitKeys == <<"global_data", "sites", "customer_lists", "inventory_lists">>

(***************************************************************************)
(* validateConfig                                                          *)
(***************************************************************************)
\* The texts pushed on the errors array: the message and the site id and
\* key interpolated in it ("" where the message has none).
MissingDataUnitsError == [msg |-> "Configuration must have a dataUnits property", site |-> "", key |-> ""]

UnknownDataUnitsKeyError(key) == [msg |-> "Unknown dataUnits key", site |-> "", key |-> key]

UnknownGlobalDataError(key) == [msg |-> "Unknown global_data option", site |-> "", key |-> key]

UnknownSiteDataError(siteId, key) == [msg |-> "Unknown site data option for site", site |-> siteId, key |-> key]

InvalidSiteError(siteId) == [msg |-> "Invalid site configuration", site |-> siteId, key |-> ""]

\* [].concat(...seqs)
RECURSIVE Concat(_)
Concat(seqs) == IF seqs = <<>> THEN <<>> ELSE Head(seqs) \o Concat(Tail(seqs))

\* for (const key of Object.keys(config.dataUnits)) ...
DataUnitsKeyErrors(du) ==
    LET bad == SelectSeq(ObjectKeys(du), LAMBDA k : ~Includes(validDataUnitKeys, k))
    IN [i \in 1..Len(bad) |-> UnknownDataUnitsKeyError(bad[i])]

\* if (config.dataUnits.global_data) for (const key of Object.keys(...)) ...
GlobalDataErrors(du) ==
    IF Truthy(Get(du, "global_data"))
    THEN LET bad == SelectSeq(ObjectKeys(Get(du, "global_data")),
                              LAMBDA k : ~Includes(globalDataOptions, k))
         IN [i \in 1..Len(bad) |-> UnknownGlobalDataError(bad[i])]
    ELSE <<>>

\* SiteErrors without its `else if (typeof siteConfig !== "boolean")` branch
SiteErrorsObjectsOnly(siteId, siteConfig) ==
    IF typeof(siteConfig) = "object" /\ siteConfig # Null
    THEN LET bad == SelectSeq(ObjectKeys(siteConfig),
                              LAMBDA k : ~Includes(siteDataOptions, k))
         IN [i \in 1..Len(bad) |-> UnknownSiteDataError(siteId, bad[i])]
    ELSE <<>>

\* the body of the loop over Object.entries(config.dataUnits.sites)
SiteErrors(siteId, siteConfig) ==
    IF typeof(siteConfig) = "object" /\ siteConfig # Null
    THEN LET bad == SelectSeq(ObjectKeys(siteConfig),
                              LAMBDA k : ~Includes(siteDataOptions, k))
         IN [i \in 1..Len(bad) |-> UnknownSiteDataError(siteId, bad[i])]
    ELSE IF typeof(siteConfig) # "boolean"
         THEN <<InvalidSiteError(siteId)>>
         ELSE <<>>

SitesErrors(du) ==
    IF Truthy(Get(du, "sites"))
    THEN LET ent == ObjectEntries(Get(du, "sites"))
         IN Concat([i \in 1..Len(ent) |-> SiteErrors(ent[i].k, ent[i].v)])
    ELSE <<>>

\* validateErrors stopping at the first violation found
validateErrorsFailFast(cfg) ==
    IF ~Truthy(Get(cfg, "dataUnits"))
    THEN <<MissingDataUnitsError>>
    ELSE LET du == Get(cfg, "dataUnits")
             all == DataUnitsKeyErrors(du) \o GlobalDataErrors(du) \o SitesErrors(du)
         IN SubSeq(all, 1, IF Len(all) > 0 THEN 1 ELSE 0)

\* the errors array when validateConfig reaches `if (errors.length > 0)`
validateErrors(cfg) ==
    IF ~Truthy(Get(cfg, "dataUnits"))
    THEN <<MissingDataUnitsError>>
    ELSE LET du == Get(cfg, "dataUnits")
         IN DataUnitsKeyErrors(du) \o GlobalDataErrors(du) \o SitesErrors(du)

\* validateConfig: throws (ok = FALSE, the errors in the message) or
\* returns the configuration it was given.
validateConfig(cfg) ==
    LET errs == validateErrors(cfg)
    IN IF Len(errs) > 0
       THEN [ok |-> FALSE, value |-> Undefined, errors |-> errs]
       ELSE [ok |-> TRUE, value |-> cfg, errors |-> <<>>]

(***************************************************************************)
(* filterEnabledDataUnits                                                  *)
(***************************************************************************)
RECURSIVE filterEnabledDataUnits(_)

\* KeepFilteredSite without the emptiness test
KeepFilteredSiteAlways(filteredSite, nestedValue) == TRUE

\* KeepFilteredSite testing the unfiltered value instead of the filtered one
KeepFilteredSiteRaw(filteredSite, nestedValue) == Len(ObjectKeys(nestedValue)) > 0

\* if (Object.keys(filteredSite).length > 0)
KeepFilteredSite(filteredSite, nestedValue) == Len(ObjectKeys(filteredSite)) > 0

\* the loop over Object.entries(value); acc = [filteredNested, hasEnabled]
RECURSIVE FilterNestedLoop(_, _)
FilterNestedLoop(entries, acc) ==
    IF entries = <<>> THEN acc
    ELSE LET nestedKey == Head(entries).k
             nestedValue == Head(entries).v
             kept(v) == [filteredNested |-> ObjectSet(acc.filteredNested, nestedKey, v),
                         hasEnabled |-> TRUE]
         IN FilterNestedLoop(Tail(entries),
              IF typeof(nestedValue) = "boolean"
              THEN (IF nestedValue.b THEN kept(nestedValue) ELSE acc)
              ELSE IF typeof(nestedValue) = "object" /\ nestedValue # Null
                   THEN LET filteredSite == filterEnabledDataUnits(nestedValue)
                        IN IF KeepFilteredSite(filteredSite, nestedValue)
                           THEN kept(filteredSite) ELSE acc
                   ELSE acc)

\* the loop over Object.entries(dataUnits); acc = filtered
RECURSIVE FilterLoop(_, _)
FilterLoop(entries, acc) ==
    IF entries = <<>> THEN acc
    ELSE LET key == Head(entries).k
             value == Head(entries).v
         IN FilterLoop(Tail(entries),
              IF typeof(value) = "boolean"
              THEN (IF value.b THEN ObjectSet(acc, key, value) ELSE acc)
              ELSE IF typeof(value) = "object" /\ value # Null
                   THEN LET r == FilterNestedLoop(ObjectEntries(value),
                                   [filteredNested |-> Obj(<<>>), hasEnabled |-> FALSE])
                        IN IF r.hasEnabled
                           THEN ObjectSet(acc, key, r.filteredNested) ELSE acc
                   ELSE acc)

filterEnabledDataUnits(du) == FilterLoop(ObjectEntries(du), Obj(<<>>))

(***************************************************************************)
(* Objects by reference.  heap[a] holds the entries of the object at       *)
(* address a; the value of an entry is a primitive or a reference.         *)
(***************************************************************************)
Ref(a) == [t |-> "ref", b |-> FALSE, s |-> <<>>, e |-> <<a>>]

AddressOf(ref) == ref.e[1]

\* the object literal v built on the heap h: [heap, v], v the reference to it
RECURSIVE HeapStore(_, _)
RECURSIVE HeapStoreEntries(_, _, _)
HeapStoreEntries(h, entries, acc) ==
    IF entries = <<>> THEN [heap |-> h, entries |-> acc]
    ELSE LET r == HeapStore(h, Head(entries).v)
         IN HeapStoreEntries(r.heap, Tail(entries), Append(acc, Entry(Head(entries).k, r.v)))

HeapStore(h, v) ==
    IF v.t # "object" THEN [heap |-> h, v |-> v]
    ELSE LET a == Len(h) + 1
             r == HeapStoreEntries(Append(h, <<>>), v.e, <<>>)
         IN [heap |-> [r.heap EXCEPT ![a] = r.entries], v |-> Ref(a)]

\* the value v stands for on the heap h
RECURSIVE Deref(_, _)
Deref(h, v) ==
    IF v.t # "ref" THEN v
    ELSE LET ent == h[AddressOf(v)]
         IN Obj([i \in 1..Len(ent) |-> Entry(ent[i].k, Deref(h, ent[i].v))])

\* the addresses of the objects reached from v
RECURSIVE Reach(_, _)
Reach(h, v) ==
    IF v.t # "ref" THEN {}
    ELSE LET ent == h[AddressOf(v)]
         IN {AddressOf(v)} \cup UNION {Reach(h, ent[i].v) : i \in 1..Len(ent)}

\* o[k] = v on the object at address a
HeapSet(h, a, k, v) == [h EXCEPT ![a] = ObjectSet(Obj(@), k, v).e]

\* typeof value === "object" && value !== null
IsObjectRef(v) == v.t = "ref"

\* the nested object kept under the key: the input's own object
NestedToKeepShared(filteredNested, value) == value

\* filtered[key] = filteredNested
NestedToKeep(filteredNested, value) == filteredNested

\* filterEnabledDataUnits on the heap: [heap, v], v the reference to `filtered`
RECURSIVE HeapFilter(_, _)
RECURSIVE HeapFilterLoop(_, _, _)
RECURSIVE HeapFilterNestedLoop(_, _, _, _)
HeapFilterNestedLoop(h, filteredNested, entries, hasEnabled) ==
    IF entries = <<>> THEN [heap |-> h, hasEnabled |-> hasEnabled]
    ELSE LET nestedKey == Head(entries).k
             nestedValue == Head(entries).v
         IN IF typeof(nestedValue) = "boolean"
            THEN IF nestedValue.b
                 THEN HeapFilterNestedLoop(
                          HeapSet(h, AddressOf(filteredNested), nestedKey, nestedValue),
                          filteredNested, Tail(entries), TRUE)
                 ELSE HeapFilterNestedLoop(h, filteredNested, Tail(entries), hasEnabled)
            ELSE IF IsObjectRef(nestedValue)
                 THEN LET r == HeapFilter(h, nestedValue)
                      IN IF Len(r.heap[AddressOf(r.v)]) > 0
                         THEN HeapFilterNestedLoop(
                                  HeapSet(r.heap, AddressOf(filteredNested), nestedKey, r.v),
                                  filteredNested, Tail(entries), TRUE)
                         ELSE HeapFilterNestedLoop(r.heap, filteredNested, Tail(entries),
                                                   hasEnabled)
                 ELSE HeapFilterNestedLoop(h, filteredNested, Tail(entries), hasEnabled)

HeapFilterLoop(h, filteredRef, entries) ==
    IF entries = <<>> THEN h
    ELSE LET key == Head(entries).k
             value == Head(entries).v
         IN IF typeof(value) = "boolean"
            THEN HeapFilterLoop(IF value.b THEN HeapSet(h, AddressOf(filteredRef), key, value)
                                ELSE h,
                                filteredRef, Tail(entries))
            ELSE IF IsObjectRef(value)
                 THEN LET filteredNested == Ref(Len(h) + 1)
                          r == HeapFilterNestedLoop(Append(h, <<>>), filteredNested,
                                                    h[AddressOf(value)], FALSE)
                      IN HeapFilterLoop(
                            IF r.hasEnabled
                            THEN HeapSet(r.heap, AddressOf(filteredRef), key,
                                         NestedToKeep(filteredNested, value))
                            ELSE r.heap,
                            filteredRef, Tail(entries))
                 ELSE HeapFilterLoop(h, filteredRef, Tail(entries))

HeapFilter(h, dataUnitsRef) ==
    LET filteredRef == Ref(Len(h) + 1)
    IN [heap |-> HeapFilterLoop(Append(h, <<>>), filteredRef, h[AddressOf(dataUnitsRef)]),
        v |-> filteredRef]

(***************************************************************************)
(* buildExportArgs                                                         *)
(***************************************************************************)
\* One command-line argument holding the text s.
Tok(s) == <<s>>

\* array.join(","): the elements with a comma between neighbours
RECURSIVE Join(_)
Join(keys) ==
    IF keys = <<>> THEN <<>>
    ELSE IF Len(keys) = 1 THEN <<keys[1]>>
         ELSE <<keys[1], ",">> \o Join(Tail(keys))

\* process.cwd()
Cwd == <<"/", "work">>

\* path.resolve(p): an absolute path as it is, a relative one below the
\* working directory without its leading "./"
PathResolve(p) ==
    IF p # <<>> /\ p[1] = "/" THEN p
    ELSE IF Len(p) >= 2 /\ p[1] = "." /\ p[2] = "/"
         THEN Cwd \o <<"/">> \o SubSeq(p, 3, Len(p))
         ELSE IF p = <<>> THEN Cwd ELSE Cwd \o <<"/">> \o p

\* a destructuring default: { name = dflt } = options
DefaultTo(v, dflt) == IF v = Undefined THEN dflt ELSE v

\* the keys of o whose value is the boolean true, in enumeration order
EnabledKeys(o) ==
    LET on == SelectSeq(ObjectEntries(o), LAMBDA ent : ent.v = Bool(TRUE))
    IN [i \in 1..Len(on) |-> on[i].k]

\* job export --output <path> --timeout <seconds> [--keep-archive] --zip-only
BaseArgs(opts) ==
    LET outputPath == DefaultTo(opts.outputPath, Str(<<".", "/", "exports">>))
        keepArchive == DefaultTo(opts.keepArchive, Bool(FALSE))
        timeout == DefaultTo(opts.timeout, Num(<<"600">>))
    IN <<Tok("job"), Tok("export"), Tok("--output"), PathResolve(outputPath.s),
         Tok("--timeout"), timeout.s>>
       \o (IF Truthy(keepArchive) THEN <<Tok("--keep-archive")>> ELSE <<>>)
       \o <<Tok("--zip-only")>>

\* GlobalDataArgs emitting the flag for every key, enabled or not
GlobalDataArgsAnyKey(du) ==
    LET gd == Get(du, "global_data")
    IN IF Truthy(gd) /\ Len(ObjectKeys(gd)) > 0
       THEN <<Tok("--global-data"), Join(ObjectKeys(gd))>>
       ELSE <<>>

\* the "Global data" block
GlobalDataArgs(du) ==
    LET gd == Get(du, "global_data")
    IN IF Truthy(gd) /\ Len(ObjectKeys(gd)) > 0
       THEN LET enabledGlobalData == EnabledKeys(gd)
            IN IF Len(enabledGlobalData) > 0
               THEN <<Tok("--global-data"), Join(enabledGlobalData)>>
               ELSE <<>>
       ELSE <<>>

\* SetAdd as an array push: no test for a key already present
SetAddAgain(set, k) == Append(set, k)

\* allSiteData.add(key): a Set keeps its elements in the order first added
SetAdd(set, k) == IF Includes(set, k) THEN set ELSE Append(set, k)

RECURSIVE AddAll(_, _)
AddAll(set, keys) == IF keys = <<>> THEN set ELSE AddAll(SetAdd(set, Head(keys)), Tail(keys))

\* the loop over Object.values(dataUnits.sites); typeof null is "object" too,
\* and Object.entries(null) throws (see buildExportArgsThrows)
RECURSIVE CollectSiteData(_, _)
CollectSiteData(siteConfigs, allSiteData) ==
    IF siteConfigs = <<>> THEN allSiteData
    ELSE CollectSiteData(Tail(siteConfigs),
            IF typeof(Head(siteConfigs)) = "object"
            THEN AddAll(allSiteData, EnabledKeys(Head(siteConfigs)))
            ELSE allSiteData)

\* the "Sites" block
SitesArgs(du) ==
    LET sites == Get(du, "sites")
    IN IF Truthy(sites) /\ Len(ObjectKeys(sites)) > 0
       THEN LET siteIds == ObjectKeys(sites)
                allSiteData == CollectSiteData(ObjectValues(sites), <<>>)
            IN <<Tok("--site"), Join(siteIds)>>
               \o (IF Len(allSiteData) > 0
                   THEN <<Tok("--site-data"), Join(allSiteData)>> ELSE <<>>)
       ELSE <<>>

\* the "Inventory lists" block
InventoryArgs(du) ==
    LET il == Get(du, "inventory_lists")
    IN IF Truthy(il) /\ Len(ObjectKeys(il)) > 0
       THEN LET inventoryIds == EnabledKeys(il)
            IN IF Len(inventoryIds) > 0
               THEN <<Tok("--inventory-list"), Join(inventoryIds)>>
               ELSE <<>>
       ELSE <<>>

\* Object.entries(siteConfig) with siteConfig null: a TypeError
buildExportArgsThrows(du) ==
    /\ Truthy(Get(du, "sites"))
    /\ \E ent \in Range(ObjectEntries(Get(du, "sites"))) : ent.v = Null

\* buildExportArgs with a block for the customer lists as well
buildExportArgsWithCustomerLists(du, opts) ==
    LET cl == Get(du, "customer_lists")
    IN BaseArgs(opts) \o GlobalDataArgs(du) \o SitesArgs(du)
       \o (IF Truthy(cl) /\ Len(EnabledKeys(cl)) > 0
           THEN <<Tok("--customer-list"), Join(EnabledKeys(cl))>> ELSE <<>>)
       \o InventoryArgs(du)

buildExportArgs(du, opts) ==
    BaseArgs(opts) \o GlobalDataArgs(du) \o SitesArgs(du) \o InventoryArgs(du)

(***************************************************************************)
(* The b2c subprocess and the functions around it (exporter.js)            *)
(***************************************************************************)
\* The outcome of a spawned child: an "error" event (rejected), or "close"
\* with the exit code, what it wrote on stdout (a JSON text, or Garbage for
\* anything JSON.parse rejects) and on stderr.
Garbage == [t |-> "garbage", b |-> FALSE, s |-> <<>>, e |-> <<>>]

ChildResult(rejected, code, stdout, stderr) ==
    [rejected |-> rejected, code |-> code, stdout |-> stdout, stderr |-> stderr]

\* JSON.parse(text) throws a SyntaxError
JSONparseThrows(text) == text.t = "garbage"

\* executeB2cCommand: the arguments the child is spawned with
B2cArgv(cmd, opts) ==
    cmd
    \o (IF Truthy(opts.instance) THEN <<Tok("--instance"), opts.instance.s>> ELSE <<>>)
    \o (IF Truthy(opts.debug) THEN <<Tok("--log-level"), Tok("trace")>> ELSE <<>>)
    \o <<Tok("--json")>>

\* checkB2cCli: spawn("b2c", ["--version"]) and its resolution
VersionArgv == <<Tok("--version")>>

checkB2cCli(result) == ~result.rejected /\ result.code = 0

\* testInstanceConnectivity, from the result of `b2c setup config`
testInstanceConnectivity(result) ==
    LET failure(text) == [success |-> FALSE, hostname |-> Null, error |-> text]
    IN IF result.rejected THEN failure(Str(<<"spawn error">>))
       ELSE IF result.code = 0 /\ JSONparseThrows(result.stdout)
            THEN failure(Str(<<"SyntaxError">>))
            ELSE LET output == JSONparse(result.stdout)
                     cfg == IF Truthy(Get(output, "config")) THEN Get(output, "config") ELSE output
                 IN IF result.code = 0 /\ Truthy(Get(cfg, "hostname"))
                    THEN [success |-> TRUE, hostname |-> Get(cfg, "hostname"), error |-> Null]
                    ELSE failure(IF result.stderr # <<>> THEN Str(result.stderr)
                                 ELSE Str(<<"Unable to read instance configuration">>))

\* fetchAvailableSites, from the result of `b2c sites list`: the array of
\* s.id || s.siteId || s over the listed sites, or null
fetchAvailableSites(result) ==
    IF result.rejected \/ result.code # 0 \/ JSONparseThrows(result.stdout) THEN Null
    ELSE LET data == Get(JSONparse(result.stdout), "data")
         IN IF Truthy(data) /\ data.t = "array"
            THEN Arr([i \in 1..Len(data.e) |->
                        LET site == data.e[i].v
                        IN IF Truthy(Get(site, "id")) THEN Get(site, "id")
                           ELSE IF Truthy(Get(site, "siteId")) THEN Get(site, "siteId")
                           ELSE site])
            ELSE Null

\* checkDwJsonExists().exists: a dw.json in the working directory or above
\* it, or else SFCC_SERVER or SFCC_CLIENT_ID in the environment
checkDwJsonExists(dwJsonFound, hasEnvConfig) == dwJsonFound \/ hasEnvConfig

(***************************************************************************)
(* executeSiteExport: the error reported for a failed job export           *)
(***************************************************************************)
\* The output of a job export child is kept line by line: the pieces of the
\* line's text, and what JSON.parse makes of the line (Garbage if it throws).
Line(s, json) == [s |-> s, json |-> json]

\* text.includes(piece), on a text given as its lines
TextIncludes(lines, piece) ==
    \E i \in 1..Len(lines) : \E j \in 1..Len(lines[i].s) : lines[i].s[j] = piece

\* result.stdout || result.stderr || ""
FullOutput(res) == IF res.stdout # <<>> THEN res.stdout ELSE res.stderr

JobAlreadyRunningMessage ==
    Str(<<"The export job is already running on this instance.">>)

\* the loop over the lines: the first message found, or dflt; a line that is
\* not JSON, or is the JSON null, throws inside the inner try and is skipped
RECURSIVE ScanLogLines(_, _)
ScanLogLines(lines, dflt) ==
    IF lines = <<>> THEN dflt
    ELSE LET logEntry == Head(lines).json
         IN IF logEntry.t \in {"garbage", "null"} THEN ScanLogLines(Tail(lines), dflt)
            ELSE IF Get(logEntry, "level") = Str(<<"error">>) /\ Truthy(Get(logEntry, "msg"))
                 THEN Get(logEntry, "msg")
                 ELSE IF Truthy(Get(Get(logEntry, "error"), "message"))
                      THEN Get(Get(logEntry, "error"), "message")
                      ELSE ScanLogLines(Tail(lines), dflt)

\* the message of the Error thrown for a result with a non-zero code
ExportErrorMessage(res) ==
    LET fullOutput == FullOutput(res)
    IN IF TextIncludes(fullOutput, "JobAlreadyRunningException")
       THEN JobAlreadyRunningMessage
       ELSE ScanLogLines(SelectSeq(fullOutput, LAMBDA l : l.s # <<>>),
                         Str(<<"Export failed">>))

(***************************************************************************)
(* loadConfig (config.js)                                                  *)
(***************************************************************************)
\* A file that does not exist.
NoFile == Undefined

\* The try block of loadConfig: readFileSync, JSON.parse, validateConfig.
\* class is the class of what it throws ("" if it returns), calls the calls made.
loadConfigTry(content) ==
    IF JSONparseThrows(content)
    THEN [class |-> "SyntaxError", message |-> <<"Unexpected token">>,
          value |-> Undefined, errors |-> <<>>,
          calls |-> <<"readFileSync", "JSON.parse">>]
    ELSE LET r == validateConfig(JSONparse(content))
         IN [class |-> IF r.ok THEN "" ELSE "Error",
             message |-> IF r.ok THEN <<>> ELSE <<"Configuration validation failed:">>,
             value |-> r.value, errors |-> r.errors,
             calls |-> <<"readFileSync", "JSON.parse", "validateConfig">>]

\* error instanceof SyntaxError
InstanceofAny(error) == error.class # ""

InstanceofSyntaxError(error) == error.class = "SyntaxError"

\* loadConfig: what it returns (outcome "loaded") or the Error it throws, with
\* the message of the Error and the calls made on the way
loadConfig(content) ==
    IF content = NoFile
    THEN [outcome |-> "not found", value |-> Undefined, errors |-> <<>>,
          message |-> <<"Configuration file not found: ">>, calls |-> <<"existsSync">>]
    ELSE LET try == loadConfigTry(content)
             calls == <<"existsSync">> \o try.calls
         IN IF try.class = ""
            THEN [outcome |-> "loaded", value |-> try.value, errors |-> <<>>,
                  message |-> <<>>, calls |-> calls]
            ELSE IF InstanceofSyntaxError(try)
                 THEN [outcome |-> "invalid JSON", value |-> Undefined, errors |-> try.errors,
                       message |-> <<"Invalid JSON in configuration file: ">> \o try.message,
                       calls |-> calls]
                 ELSE [outcome |-> "validation failed", value |-> Undefined,
                       errors |-> try.errors, message |-> try.message, calls |-> calls]

(***************************************************************************)
(* The wizard's results (interactive.js, commands/export.js)               *)
(***************************************************************************)
\* the choices of the two checkboxes: the catalog without "all"
globalDataChoices == SelectSeq(globalDataOptions, LAMBDA k : k # "all")

siteDataChoices == SelectSeq(siteDataOptions, LAMBDA k : k # "all")

\* sitesInput.split(",").map(trim).filter(Boolean), on the items typed
\* between the commas ("" for an item of blanks only)
SplitSites(typed) == SelectSeq(typed, LAMBDA item : item # "")

\* the validate callback of the site-ids input: value.trim().length > 0
SitesInputValid(typed) == ~(typed = <<>> \/ typed = <<"">>)

\* o with each key of keys set to v, in that order
RECURSIVE SetAll(_, _, _)
SetAll(o, keys, v) ==
    IF keys = <<>> THEN o ELSE SetAll(ObjectSet(o, Head(keys), v), Tail(keys), v)

\* the strings of an array of strings, each a single piece
Texts(a) == [i \in 1..Len(a.e) |-> a.e[i].v.s[1]]

\* the array of the strings keys
ArrOf(keys) == Arr([i \in 1..Len(keys) |-> Str(<<keys[i]>>)])

\* the loop over Object.entries(siteDataConfig): config.sites[site] = {...}
RECURSIVE SitesFromSelection(_, _)
SitesFromSelection(entries, sites) ==
    IF entries = <<>> THEN sites
    ELSE SitesFromSelection(Tail(entries),
            ObjectSet(sites, Head(entries).k,
                      SetAll(Obj(<<>>), Texts(Head(entries).v), Bool(TRUE))))

\* "Build config object" of runInteractivePrompts
WizardConfig(outputDir, archiveNameTemplate, keepArchive, selectedGlobalData, siteDataConfig) ==
    Obj(<<Entry("output_directory", outputDir),
          Entry("archive_name_template", archiveNameTemplate),
          Entry("keep_archive", keepArchive),
          Entry("global_data", SetAll(Obj(<<>>), selectedGlobalData, Bool(TRUE))),
          Entry("sites", SitesFromSelection(ObjectEntries(siteDataConfig), Obj(<<>>)))>>)

\* a || b
OrElse(a, b) == IF Truthy(a) THEN a ELSE b

buildDataUnitsFromInteractiveConfig(cfg) ==
    LET base == Obj(<<Entry("global_data", OrElse(Get(cfg, "global_data"), Obj(<<>>))),
                      Entry("sites", OrElse(Get(cfg, "sites"), Obj(<<>>)))>>)
    IN IF Truthy(Get(cfg, "inventory_lists"))
       THEN ObjectSet(base, "inventory_lists", Get(cfg, "inventory_lists"))
       ELSE base

\* delete o[k]
ObjectDelete(o, k) == Obj(SelectSeq(o.e, LAMBDA ent : ent.k # k))

\* what the export command writes when asked to save: { ...config } without
\* _saveToFile and _saveFilePath, stringified
SavedConfigText(cfg) ==
    JSONstringify(ObjectDelete(ObjectDelete(cfg, "_saveToFile"), "_saveFilePath"))

(***************************************************************************)
(* Bounded input universes                                                 *)
(***************************************************************************)
BoolLeaves == {Bool(TRUE), Bool(FALSE)}

\* Number of keys of a tree, all levels together.
RECURSIVE TreeSize(_)
RECURSIVE MembersSize(_)
MembersSize(e) == IF e = <<>> THEN 0 ELSE 1 + TreeSize(Head(e).v) + MembersSize(Tail(e))

TreeSize(v) == MembersSize(v.e)

\* Number of keys, all levels together, of the dataUnits of a configuration.
MaxConfigKeys == 6

\* The keys a mapping of each kind is given, in enumeration order (integer-like
\* site ids first); price_books, catalogs and reports are in no catalog.
KeysOfKind(kind) ==
    CASE kind = "dataUnits" -> <<"global_data", "sites", "inventory_lists", "reports">>
      [] kind = "global_data" -> <<"meta_data", "price_books">>
      [] kind = "sites" -> <<"7", "RefArch", "SiteGenesis">>
      [] kind = "site" -> <<"content", "catalogs">>
      [] kind = "inventory_lists" -> <<"inventory_1">>
      [] OTHER -> <<>>

ChildKind(kind, key) ==
    CASE kind = "dataUnits" -> key
      [] kind = "sites" -> "site"
      [] OTHER -> "leaf"

\* The values of each kind with at most n keys in all.
RECURSIVE ValuesOfKind(_, _)
RECURSIVE MembersOfKind(_, _, _)
MembersOfKind(kind, keys, n) ==
    IF keys = <<>> \/ n = 0 THEN {<<>>}
    ELSE MembersOfKind(kind, Tail(keys), n)
         \cup UNION {{<<Entry(Head(keys), v)>> \o r :
                        r \in MembersOfKind(kind, Tail(keys), n - 1 - TreeSize(v))} :
                     v \in ValuesOfKind(ChildKind(kind, Head(keys)), n - 1)}

ValuesOfKind(kind, n) ==
    LET objects == {Obj(e) : e \in MembersOfKind(kind, KeysOfKind(kind), n)}
    IN CASE kind = "leaf" -> BoolLeaves
         [] kind = "reports" -> {Bool(TRUE)}
         [] kind = "site" -> BoolLeaves \cup {Num(<<"1">>), Null} \cup objects
         [] kind \in {"global_data", "sites"} -> {Bool(TRUE)} \cup objects
         [] OTHER -> objects

ArchiveMember == Entry("archive", Obj(<<Entry("name", Str(<<"export-", "{date}", "-", "{timestamp}">>))>>))

\* The configuration objects given to validateConfig: with and without dataUnits.
ValidateConfigs ==
    {Obj(<<ArchiveMember>>)}
    \cup {Obj(<<ArchiveMember, Entry("dataUnits", du)>>) :
            du \in ValuesOfKind("dataUnits", MaxConfigKeys)}

MaxTreeKeys == 5

MaxTreeDepth == 5

TreeKeys == <<"a", "b">>

TreeLeaves == {Bool(TRUE), Bool(FALSE), Num(<<"1">>)}

\* The values with at most n keys in all and objects nested at most d deep.
RECURSIVE TreesUpTo(_, _)
RECURSIVE MembersUpTo(_, _, _)
MembersUpTo(keys, n, d) ==
    IF keys = <<>> \/ n = 0 THEN {<<>>}
    ELSE MembersUpTo(Tail(keys), n, d)
         \cup UNION {{<<Entry(Head(keys), v)>> \o r :
                        r \in MembersUpTo(Tail(keys), n - 1 - TreeSize(v), d)} :
                     v \in TreesUpTo(n - 1, d - 1)}

TreesUpTo(n, d) ==
    TreeLeaves \cup (IF d = 0 THEN {} ELSE {Obj(e) : e \in MembersUpTo(TreeKeys, n, d)})

\* The trees given to filterEnabledDataUnits.
FilterTrees == {Obj(e) : e \in MembersUpTo(TreeKeys, MaxTreeKeys, MaxTreeDepth)}

(***************************************************************************)
(* Specification of validateConfig on its own                              *)
(***************************************************************************)
NoExportOptions == [outputPath |-> Undefined, keepArchive |-> Undefined, timeout |-> Undefined]

\* the state of the export command while it is not running
NoWizard ==
    [selectedGlobalData |-> <<>>, availableSites |-> Null, selectedSites |-> <<>>,
     todo |-> <<>>, siteDataConfig |-> Obj(<<>>), outputDir |-> Undefined,
     archiveNameTemplate |-> Undefined, config |-> Undefined]

\* no command line, no child, nothing thrown, no file-system call
NoIo ==
    /\ cmdLine = Undefined
    /\ outcome = Undefined
    /\ thrown = Null
    /\ fsOps = <<>>
    /\ heap = <<>>

NoCommand ==
    /\ options = Undefined
    /\ spawned = <<>>
    /\ children = 0
    /\ exitCode = -1
    /\ log = <<>>
    /\ wiz = NoWizard
    /\ saved = Undefined
    /\ NoIo

InitValidate ==
    /\ pc = "validate"
    /\ config \in ValidateConfigs
    /\ errors = <<>>
    /\ dataUnits = Undefined
    /\ filtered = Undefined
    /\ written = Undefined
    /\ exportOptions = NoExportOptions
    /\ args = <<>>
    /\ NoCommand

Validate ==
    /\ pc = "validate"
    /\ LET r == validateConfig(config)
       IN /\ errors' = r.errors
          /\ pc' = IF r.ok THEN "valid" ELSE "invalid"
    /\ UNCHANGED <<config, dataUnits, filtered, written, exportOptions, args, cmdVars>>

NextValidate == Validate

SpecValidate == InitValidate /\ [][NextValidate]_vars

(***************************************************************************)
(* Specification of filterEnabledDataUnits on its own                      *)
(***************************************************************************)
InitFilter ==
    /\ pc = "filter"
    /\ config = Undefined
    /\ errors = <<>>
    /\ dataUnits \in FilterTrees
    /\ filtered = Undefined
    /\ written = Undefined
    /\ exportOptions = NoExportOptions
    /\ args = <<>>
    /\ NoCommand

Filter ==
    /\ pc = "filter"
    /\ filtered' = filterEnabledDataUnits(dataUnits)
    /\ pc' = "filtered"
    /\ UNCHANGED <<config, errors, dataUnits, written, exportOptions, args, cmdVars>>

\* the result given to the filter again
FilterAgain ==
    /\ pc = "filtered"
    /\ dataUnits' = filtered
    /\ filtered' = filterEnabledDataUnits(filtered)
    /\ pc' = "refiltered"
    /\ UNCHANGED <<config, errors, written, exportOptions, args, cmdVars>>

NextFilter == Filter \/ FilterAgain

SpecFilter == InitFilter /\ [][NextFilter]_vars

(***************************************************************************)
(* Properties of validateConfig                                            *)
(***************************************************************************)
KeySet(v) == Range(ObjectKeys(v))

\* The shape spec section 3 permits, stated on the keys alone.
PermittedShape(cfg) ==
    /\ HasKey(cfg, "dataUnits")
    /\ LET du == Get(cfg, "dataUnits")
       IN /\ KeySet(du) \subseteq Range(validDataUnitKeys)
          /\ KeySet(Get(du, "global_data")) \subseteq Range(globalDataOptions)
          /\ \A ent \in Range(ObjectEntries(Get(du, "sites"))) :
                \/ ent.v.t = "boolean"
                \/ ent.v.t = "object" /\ KeySet(ent.v) \subseteq Range(siteDataOptions)

\* v with every boolean at any depth replaced by b
RECURSIVE WithLeaves(_, _)
WithLeaves(v, b) ==
    CASE v.t = "boolean" -> Bool(b)
      [] v.t = "object" -> Obj([i \in 1..Len(v.e) |-> Entry(v.e[i].k, WithLeaves(v.e[i].v, b))])
      [] OTHER -> v

\* C1: validateConfig succeeds exactly on the configurations of the permitted
\* shape (dataUnits present, its keys among the four permitted ones, the
\* global_data keys in globalDataOptions, every site a boolean or an object
\* with keys in siteDataOptions), and the errors are the same whatever the
\* boolean leaves are set to.
C1_ValidateIffPermittedShape ==
    pc \in {"valid", "invalid"} =>
        /\ (pc = "valid") <=> PermittedShape(config)
        /\ \A b \in BOOLEAN : validateErrors(WithLeaves(config, b)) = errors

\* a configuration with sites and global data listed, none enabled, accepted
C1_Witness ==
    /\ pc = "valid"
    /\ LET du == Get(config, "dataUnits")
       IN /\ filterEnabledDataUnits(du) = Obj(<<>>)
          /\ Len(ObjectKeys(Get(du, "global_data"))) > 0
          /\ \E ent \in Range(ObjectEntries(Get(du, "sites"))) : Len(ObjectKeys(ent.v)) > 0

\* Every violation of a configuration that has dataUnits, as the error naming it.
Violations(cfg) ==
    LET du == Get(cfg, "dataUnits")
        sites == Range(ObjectEntries(Get(du, "sites")))
    IN {UnknownDataUnitsKeyError(k) : k \in KeySet(du) \ Range(validDataUnitKeys)}
       \cup {UnknownGlobalDataError(k) :
                k \in KeySet(Get(du, "global_data")) \ Range(globalDataOptions)}
       \cup UNION {{UnknownSiteDataError(ent.k, k) :
                      k \in KeySet(ent.v) \ Range(siteDataOptions)} :
                   ent \in {x \in sites : x.v.t = "object"}}
       \cup {InvalidSiteError(ent.k) : ent \in {x \in sites : x.v.t \notin {"boolean", "object"}}}

\* C2: when validateConfig fails on a configuration that has dataUnits, the
\* errors array holds one entry for every violation, naming its key and site,
\* and nothing else.
C2_ErrorListComplete ==
    (pc = "invalid" /\ HasKey(config, "dataUnits")) =>
        /\ Range(errors) = Violations(config)
        /\ Len(errors) = Cardinality(Violations(config))

\* a failure reporting violations of three kinds at once, one naming a site
C2_Witness ==
    /\ pc = "invalid"
    /\ Cardinality({errors[i].msg : i \in 1..Len(errors)}) >= 3
    /\ \E i \in 1..Len(errors) : errors[i].site # ""

(***************************************************************************)
(* Properties of filterEnabledDataUnits                                    *)
(***************************************************************************)
\* The key paths of x that end in a boolean true.
RECURSIVE TruePaths(_)
TruePaths(x) ==
    UNION {IF ent.v = Bool(TRUE) THEN {<<ent.k>>}
           ELSE {<<ent.k>> \o p : p \in TruePaths(ent.v)} : ent \in Range(x.e)}

\* The leaves of x with their paths; an empty mapping below the root is a leaf.
RECURSIVE LeavesOf(_)
LeavesOf(x) ==
    UNION {IF ent.v.t = "object" /\ ent.v.e # <<>>
           THEN {[path |-> <<ent.k>> \o l.path, leaf |-> l.leaf] : l \in LeavesOf(ent.v)}
           ELSE {[path |-> <<ent.k>>, leaf |-> ent.v]} : ent \in Range(x.e)}

\* C3: the result of filterEnabledDataUnits has exactly the key paths of its
\* argument that end in a boolean true, each ending in true (no false leaf,
\* no other leaf, no empty mapping), and is empty iff there is no such path.
C3_FilterKeepsTruePaths ==
    pc = "filtered" =>
        /\ filtered.t = "object"
        /\ LeavesOf(filtered) = {[path |-> p, leaf |-> Bool(TRUE)] : p \in TruePaths(dataUnits)}
        /\ (filtered = Obj(<<>>)) <=> (TruePaths(dataUnits) = {})

\* a tree with a true leaf four levels down, from which something was dropped
C3_Witness ==
    /\ pc = "filtered"
    /\ \E p \in TruePaths(dataUnits) : Len(p) >= 4
    /\ filtered # dataUnits

\* C4: filtering a filtered tree gives the same tree.
C4_FilterIdempotent == pc = "refiltered" => filtered = dataUnits

\* a non-empty nested result filtered again
C4_Witness ==
    /\ pc = "refiltered"
    /\ \E p \in TruePaths(filtered) : Len(p) >= 3

(***************************************************************************)
(* Specification of buildExportArgs on its own: a dataUnits text with its  *)
(* sites written in any order, loaded as the export command loads a file   *)
(* (parsed, then filtered) or assigned key by key as the wizard does       *)
(* (unfiltered), then compiled.                                            *)
(***************************************************************************)
\* Number of sites written in a dataUnits text.
MaxCompileSites == 2

CompileSiteIds == {"RefArch", "12", "SiteGenesis", "7"}

\* The sequences of at most n distinct elements of S.
RECURSIVE DistinctSeqs(_, _)
DistinctSeqs(S, n) ==
    IF n = 0 THEN {<<>>}
    ELSE {<<>>} \cup UNION {{<<x>> \o r : r \in DistinctSeqs(S \ {x}, n - 1)} : x \in S}

\* The member lists with the keys ks in that order and values of vals.
RECURSIVE MemberLists(_, _)
MemberLists(ks, vals) ==
    IF ks = <<>> THEN {<<>>}
    ELSE {<<Entry(Head(ks), v)>> \o r : v \in vals, r \in MemberLists(Tail(ks), vals)}

CompileSiteValues ==
    {Bool(TRUE),
     Obj(<<>>),
     Obj(<<Entry("content", Bool(TRUE))>>),
     Obj(<<Entry("coupons", Bool(TRUE)), Entry("content", Bool(TRUE))>>),
     Obj(<<Entry("content", Bool(FALSE))>>)}

CompileGlobalMembers ==
    {<<>>,
     <<Entry("global_data", Obj(<<Entry("meta_data", Bool(TRUE)), Entry("custom_types", Bool(TRUE))>>))>>,
     <<Entry("global_data", Obj(<<Entry("meta_data", Bool(FALSE))>>))>>}

CompileInventoryMembers ==
    {<<>>,
     <<Entry("inventory_lists", Obj(<<Entry("inventory_1", Bool(TRUE))>>))>>,
     <<Entry("inventory_lists", Obj(<<Entry("inventory_1", Bool(FALSE))>>))>>}

CompileSitesMembers ==
    {<<>>} \cup
    {<<Entry("sites", Obj(m))>> :
        m \in UNION {MemberLists(ks, CompileSiteValues) :
                       ks \in DistinctSeqs(CompileSiteIds, MaxCompileSites)}}

CompileTexts ==
    {Obj(g \o st \o il) :
        g \in CompileGlobalMembers, st \in CompileSitesMembers, il \in CompileInventoryMembers}

CompileOptions ==
    {[outputPath |-> o, keepArchive |-> k, timeout |-> t] :
        o \in {Undefined, Str(<<"out">>), Str(<<"/", "srv", "out">>)},
        k \in {Bool(TRUE), Bool(FALSE)},
        t \in {Str(<<"30">>)}}
    \cup {[outputPath |-> Undefined, keepArchive |-> Undefined, timeout |-> Undefined]}

InitCompile ==
    /\ pc = "written"
    /\ config = Undefined
    /\ errors = <<>>
    /\ dataUnits = Undefined
    /\ filtered = Undefined
    /\ written \in CompileTexts
    /\ exportOptions = NoExportOptions
    /\ args = <<>>
    /\ NoCommand

\* exportCommand, file mode: JSON.parse, then filterEnabledDataUnits
LoadFiltered ==
    /\ pc = "written"
    /\ dataUnits' = filterEnabledDataUnits(JSONparse(written))
    /\ pc' = "loaded"
    /\ UNCHANGED <<config, errors, filtered, written, exportOptions, args, cmdVars>>

\* runInteractivePrompts: the mappings built by assignment, key by key
LoadUnfiltered ==
    /\ pc = "written"
    /\ dataUnits' = JSONparse(written)
    /\ pc' = "loaded"
    /\ UNCHANGED <<config, errors, filtered, written, exportOptions, args, cmdVars>>

Compile ==
    /\ pc = "loaded"
    /\ \E opts \in CompileOptions :
          /\ exportOptions' = opts
          /\ args' = buildExportArgs(dataUnits, opts)
    /\ pc' = "compiled"
    /\ UNCHANGED <<config, errors, dataUnits, filtered, written, cmdVars>>

NextCompile == LoadFiltered \/ LoadUnfiltered \/ Compile

SpecCompile == InitCompile /\ [][NextCompile]_vars

(***************************************************************************)
(* Properties of buildExportArgs                                           *)
(***************************************************************************)
\* The places of args holding the flag f.
Positions(f) == {i \in 1..Len(args) : args[i] = Tok(f)}

\* The argument that follows the flag f.
ArgAfter(f) == args[(CHOOSE i \in Positions(f) : TRUE) + 1]

HasEnabled(o) == \E ent \in Range(ObjectEntries(o)) : ent.v = Bool(TRUE)

Count(cond) == IF cond THEN 1 ELSE 0

\* C5: buildExportArgs returns job, export, --output <absolute path>,
\* --timeout <seconds>, --keep-archive only if keepArchive is set, --zip-only
\* always, then --global-data iff global_data has an enabled key, then --site
\* iff sites has an entry (--site-data only right after it), then
\* --inventory-list iff inventory_lists has an enabled entry, each flag once
\* and nothing else.
C5_ArgsInFixedOrder ==
    pc = "compiled" =>
        LET keep == Count(Truthy(exportOptions.keepArchive))
            g == Count(HasEnabled(Get(dataUnits, "global_data")))
            st == Count(ObjectKeys(Get(dataUnits, "sites")) # <<>>)
            sd == Count(Positions("--site-data") # {})
            il == Count(HasEnabled(Get(dataUnits, "inventory_lists")))
            zip == 7 + keep
        IN /\ SubSeq(args, 1, 3) = <<Tok("job"), Tok("export"), Tok("--output")>>
           /\ args[4] # <<>> /\ args[4][1] = "/"
           /\ args[5] = Tok("--timeout")
           /\ args[6] = IF exportOptions.timeout = Undefined
                        THEN <<"600">> ELSE exportOptions.timeout.s
           /\ Positions("--keep-archive") = IF keep = 1 THEN {7} ELSE {}
           /\ Positions("--zip-only") = {zip}
           /\ Positions("--global-data") = IF g = 1 THEN {zip + 1} ELSE {}
           /\ Positions("--site") = IF st = 1 THEN {zip + 2 * g + 1} ELSE {}
           /\ Positions("--site-data") \subseteq {zip + 2 * g + 3}
           /\ sd = 1 => st = 1
           /\ Positions("--inventory-list") =
                 IF il = 1 THEN {zip + 2 * (g + st + sd) + 1} ELSE {}
           /\ Len(args) = zip + 2 * (g + st + sd + il)

\* every optional flag present
C5_Witness ==
    /\ pc = "compiled"
    /\ Len(args) = 16
    /\ Positions("--keep-archive") # {}
    /\ Positions("--site-data") # {}

\* The ids of the sites handed to the compiler, in the order they were written.
SelectedSiteIds ==
    SelectSeq(ObjectKeys(Get(written, "sites")),
              LAMBDA k : HasKey(Get(dataUnits, "sites"), k))

\* The enabled data keys of the sites taken in the order ids, each site's keys
\* in the order they were written.
EnabledAlong(ids) ==
    Concat([i \in 1..Len(ids) |-> EnabledKeys(Get(Get(written, "sites"), ids[i]))])

\* The elements of F, each at the place of its first occurrence.
FirstOccurrences(F) ==
    LET idx == {i \in 1..Len(F) : \A j \in 1..(i - 1) : F[j] # F[i]}
    IN [n \in 1..Cardinality(idx) |->
           F[CHOOSE i \in idx : Cardinality({j \in idx : j < i}) = n - 1]]

\* One --site flag listing ids, and --site-data (at most once) with the
\* duplicate-free union of the enabled keys met along ids.
UnionAlong(ids) ==
    /\ Cardinality(Positions("--site")) = 1
    /\ ArgAfter("--site") = Join(ids)
    /\ LET union == FirstOccurrences(EnabledAlong(ids))
       IN IF union = <<>>
          THEN Positions("--site-data") = {}
          ELSE /\ Cardinality(Positions("--site-data")) = 1
               /\ ArgAfter("--site-data") = Join(union)

\* C6 as claimed: the site ids are listed in insertion order, and the union
\* of the enabled keys in order of first occurrence along it.
C6_SitesInInsertionOrder ==
    (pc = "compiled" /\ SelectedSiteIds # <<>>) => UnionAlong(SelectedSiteIds)

\* The order Object.keys gives the selected sites: the integer-like ids first,
\* ascending, then the others as written.
EnumerationOrder ==
    SelectSeq(ArrayIndexKeys, LAMBDA k : Includes(SelectedSiteIds, k))
    \o SelectSeq(SelectedSiteIds, LAMBDA k : ~IsArrayIndex(k))

\* C6 as amended: one --site flag lists every site id in the enumeration order
\* of the sites mapping (integer-like ids ascending, then the other ids in
\* insertion order), and --site-data appears at most once with the
\* duplicate-free union of the enabled keys of all sites in order of first
\* occurrence along that order.
C6_SitesInEnumerationOrder ==
    (pc = "compiled" /\ SelectedSiteIds # <<>>) => UnionAlong(EnumerationOrder)

\* two sites, the integer-like id written last, one key enabled on both
C6_Witness ==
    /\ pc = "compiled"
    /\ Len(SelectedSiteIds) = 2
    /\ ~IsArrayIndex(SelectedSiteIds[1]) /\ IsArrayIndex(SelectedSiteIds[2])
    /\ \A i \in 1..2 : Includes(EnabledAlong(<<SelectedSiteIds[i]>>), "content")
    /\ Includes(EnabledAlong(SelectedSiteIds), "coupons")

(***************************************************************************)
(* Specification of the export command (commands/export.js) with the       *)
(* wizard (runInteractivePrompts) and executeSiteExport.  Each action is   *)
(* the code run from one await to the next.                                *)
(***************************************************************************)
\* The repository holds two definitions of the export command: one gives
\* --config the default "./export-config.json" and has no --instance,
\* --zip-only and --no-download, the other gives --config no default.
CliEntries == {"config defaulted", "config required"}

\* The command lines: the entry point and the flags given on it.  -c together
\* with -i is left out (options.config is read in the file branch only), the
\* entry that defaults --config is run in file mode, and a --timeout is given
\* in file mode without other flags.
ExportCommandLines ==
    LET lines ==
          {[entry |-> e, interactive |-> i, config |-> c, keepArchive |-> k,
            debug |-> d, instance |-> n, timeout |-> t] :
              e \in CliEntries, i \in BOOLEAN, k \in BOOLEAN, d \in BOOLEAN,
              c \in {Undefined, Str(<<".", "/", "export-config.json">>)},
              n \in {Undefined, Str(<<"staging">>)},
              t \in {Undefined, Str(<<"0">>), Str(<<"soon">>)}}
    IN {a \in lines :
          /\ ~(a.interactive /\ a.config # Undefined)
          /\ a.entry = "config defaulted" => (~a.interactive /\ a.instance = Undefined)
          /\ a.timeout # Undefined =>
                (a.entry = "config required" /\ a.config # Undefined /\ ~a.debug
                    /\ ~a.keepArchive /\ a.instance = Undefined)}

\* program.command("export")...: the options object commander hands to
\* exportCommand for the command line a
ParseExport(a) ==
    LET full == a.entry = "config required"
    IN [interactive |-> Bool(a.interactive),
        config |-> IF a.config # Undefined \/ full THEN a.config
                   ELSE Str(<<".", "/", "export-config.json">>),
        output |-> Str(<<".", "/", "exports">>),
        keepArchive |-> Bool(a.keepArchive),
        zipOnly |-> IF full THEN Bool(FALSE) ELSE Undefined,
        download |-> IF full THEN Bool(TRUE) ELSE Undefined,
        timeout |-> IF a.timeout # Undefined THEN a.timeout ELSE Str(<<"600">>),
        debug |-> Bool(a.debug),
        instance |-> IF full THEN a.instance ELSE Undefined]

\* Number of keys, all levels together, of the dataUnits of a file on disk.
MaxFileKeys == 3

\* What may be at the --config path: nothing, a text that is not JSON, or
\* the text of a configuration object with or without dataUnits.
ConfigFiles ==
    {NoFile, Garbage, JSONstringify(Obj(<<ArchiveMember>>))}
    \cup {JSONstringify(Obj(<<ArchiveMember, Entry("dataUnits", du)>>)) :
            du \in ValuesOfKind("dataUnits", MaxFileKeys)}

\* How a `b2c --version` child may end.
VersionResults ==
    {ChildResult(FALSE, 0, Garbage, <<>>), ChildResult(FALSE, 127, Garbage, <<"not found">>),
     ChildResult(TRUE, 0, Garbage, <<>>)}

HostnameMember == Entry("hostname", Str(<<"dev01.example.com">>))

\* How a `b2c setup config` child may end.
SetupConfigResults ==
    {ChildResult(FALSE, 0, Obj(<<HostnameMember>>), <<>>),
     ChildResult(FALSE, 0, Obj(<<Entry("config", Obj(<<HostnameMember>>))>>), <<>>),
     ChildResult(FALSE, 0, Obj(<<>>), <<>>),
     ChildResult(FALSE, 0, Garbage, <<>>),
     ChildResult(FALSE, 1, Garbage, <<"401 Unauthorized">>),
     ChildResult(FALSE, 1, Garbage, <<>>),
     ChildResult(TRUE, 0, Garbage, <<>>)}

\* How a `b2c sites list` child may end.
SitesListResults ==
    {ChildResult(FALSE, 0, Obj(<<Entry("data", Arr(<<Obj(<<Entry("id", Str(<<"RefArch">>))>>),
                                                       Str(<<"7">>)>>))>>), <<>>),
     ChildResult(FALSE, 0, Obj(<<Entry("data", Arr(<<>>))>>), <<>>),
     ChildResult(FALSE, 0, Obj(<<>>), <<>>),
     ChildResult(FALSE, 0, Garbage, <<>>),
     ChildResult(FALSE, 1, Garbage, <<"401 Unauthorized">>),
     ChildResult(TRUE, 0, Garbage, <<>>)}

\* How a `b2c job export` child may end.
JobExportResults ==
    {ChildResult(FALSE, 0, <<Line(<<"{localPath}">>,
                Obj(<<Entry("localPath", Str(<<"/", "work", "/", "exports">>))>>))>>, <<>>),
     ChildResult(FALSE, 0, <<Line(<<"done">>, Garbage)>>, <<>>),
     ChildResult(FALSE, 1, <<>>, <<Line(<<"JobAlreadyRunningException">>, Garbage)>>),
     ChildResult(FALSE, 1, <<Line(<<"{level,msg}">>,
                Obj(<<Entry("level", Str(<<"error">>)), Entry("msg", Str(<<"Job failed">>))>>))>>, <<>>),
     ChildResult(TRUE, 0, <<>>, <<>>)}

\* The answers the user may give.
WizardGlobalSample == {"meta_data"}

WizardSiteDataSample == {"content", "coupons"}

\* a checkbox answers with the ticked choices, in the order of the choices
CheckboxAnswers(choices, sample) ==
    {SelectSeq(choices, LAMBDA k : k \in ticked) : ticked \in SUBSET sample}

\* Number of comma-separated items typed at the site-ids input.
MaxTyped == 2

TypedItems == {"RefArch", "7", ""}

TypedInputs ==
    {typed \in UNION {[1..n -> TypedItems] : n \in 1..MaxTyped} : SitesInputValid(typed)}

OutputDirAnswers == {Str(<<"/", "data", "/", "out">>)}

ArchiveNameAnswers == {Str(<<"export-", "{date}", "-", "{timestamp}">>)}

SavePathAnswers == {Str(<<".", "/", "export-config.json">>)}

Step(name, ok) == [step |-> name, ok |-> ok]

InitExport ==
    /\ pc = "exportCommand"
    /\ cmdLine \in ExportCommandLines
    /\ options = ParseExport(cmdLine)
    /\ config = Undefined
    /\ errors = <<>>
    /\ dataUnits = Undefined
    /\ filtered = Undefined
    /\ written = Undefined
    /\ exportOptions = NoExportOptions
    /\ args = <<>>
    /\ spawned = <<>>
    /\ children = 0
    /\ exitCode = -1
    /\ log = <<>>
    /\ wiz = NoWizard
    /\ saved = Undefined
    /\ outcome = Undefined
    /\ thrown = Null
    /\ fsOps = <<>>
    /\ heap = <<>>

\* process.exit(code)
Exit(code) ==
    /\ pc' = "exited"
    /\ exitCode' = code

\* a failure that is reported and leaves the exit code of a normal end
FailWithCodeZero(steps) ==
    /\ log' = log \o steps
    /\ Exit(0)

\* a step failed: the failure is reported and the process exits with code 1
Fail(steps) ==
    /\ log' = log \o steps
    /\ Exit(1)

\* spawn of a b2c child with the arguments argv
Spawn(argv) ==
    /\ spawned' = Append(spawned, argv)
    /\ children' = children + 1

\* the child awaited has closed and nothing is spawned in its place
Closed ==
    /\ spawned' = spawned
    /\ children' = children - 1

\* the next child spawned while the one awaited is still running
SpawnBesideRunning(argv) ==
    /\ spawned' = Append(spawned, argv)
    /\ children' = children + 1

\* the child awaited has closed and the next one is spawned
ClosedThenSpawn(argv) ==
    /\ spawned' = Append(spawned, argv)
    /\ children' = children

\* the usage check, then checkB2cCli is started
Start ==
    /\ pc = "exportCommand"
    /\ IF ~Truthy(options.interactive) /\ ~Truthy(options.config)
       THEN /\ Fail(<<Step("usage", FALSE)>>)
            /\ UNCHANGED <<spawned, children>>
       ELSE /\ Spawn(VersionArgv)
            /\ pc' = "checkB2cCli"
            /\ UNCHANGED <<log, exitCode>>
    /\ UNCHANGED <<config, errors, dataUnits, filtered, written, exportOptions, args,
                   options, wiz, saved, ioVars>>

\* checkB2cCli resolves; then checkDwJsonExists, then testInstanceConnectivity
\* is started with { debug: options.debug }
CliChecked ==
    /\ pc = "checkB2cCli"
    /\ \E result \in VersionResults, dwJsonFound \in BOOLEAN, hasEnvConfig \in BOOLEAN :
          IF ~checkB2cCli(result)
          THEN Fail(<<Step("checkB2cCli", FALSE)>>) /\ Closed
          ELSE IF ~checkDwJsonExists(dwJsonFound, hasEnvConfig)
               THEN /\ Fail(<<Step("checkB2cCli", TRUE), Step("checkDwJsonExists", FALSE)>>)
                    /\ Closed
               ELSE /\ log' = log \o <<Step("checkB2cCli", TRUE), Step("checkDwJsonExists", TRUE)>>
                    /\ ClosedThenSpawn(B2cArgv(<<Tok("setup"), Tok("config")>>,
                                               [debug |-> options.debug, instance |-> Undefined]))
                    /\ pc' = "testInstanceConnectivity"
                    /\ UNCHANGED exitCode
    /\ UNCHANGED <<config, errors, dataUnits, filtered, written, exportOptions, args,
                   options, wiz, saved, ioVars>>

\* the probe's outcome never stopping the command
ConnectivityFailedNever(connectivityTest) == FALSE

\* if (!connectivityTest.success)
ConnectivityFailed(connectivityTest) == ~connectivityTest.success

\* instanceOptions of exportCommand
InstanceOptions ==
    [debug |-> options.debug,
     instance |-> IF Truthy(options.instance) THEN options.instance ELSE Undefined]

\* exportCommand from the test for no data units to the start of
\* getInstanceInfo; running is the number of children still open
Proceed(lg, du, running) ==
    /\ dataUnits' = du
    /\ IF Len(ObjectKeys(du)) = 0
       THEN /\ log' = lg \o <<Step("dataUnits", FALSE)>>
            /\ Exit(1)
            /\ spawned' = spawned
            /\ children' = running
       ELSE /\ log' = lg
            /\ spawned' = Append(spawned, B2cArgv(<<Tok("setup"), Tok("config")>>, InstanceOptions))
            /\ children' = running + 1
            /\ pc' = "getInstanceInfo"
            /\ UNCHANGED exitCode

\* testInstanceConnectivity resolves; in file mode loadConfig and
\* filterEnabledDataUnits follow at once, in interactive mode the first prompt
ConnectivityTested ==
    /\ pc = "testInstanceConnectivity"
    /\ \E result \in SetupConfigResults :
          LET connectivityTest == testInstanceConnectivity(result)
              tested == log \o <<Step("testInstanceConnectivity", connectivityTest.success)>>
          IN IF ConnectivityFailed(connectivityTest)
             THEN /\ log' = tested
                  /\ Exit(1)
                  /\ Closed
                  /\ UNCHANGED <<config, errors, dataUnits, written>>
             ELSE IF Truthy(options.interactive)
                  THEN /\ log' = tested
                       /\ Closed
                       /\ pc' = "selectGlobalData"
                       /\ UNCHANGED <<config, errors, dataUnits, written, exitCode>>
                  ELSE \E content \in ConfigFiles :
                          LET loaded == loadConfig(content)
                          IN /\ written' = content
                             /\ errors' = loaded.errors
                             /\ IF loaded.outcome # "loaded"
                                THEN /\ log' = tested \o <<Step("loadConfig", FALSE)>>
                                     /\ Exit(1)
                                     /\ Closed
                                     /\ UNCHANGED <<config, dataUnits>>
                                ELSE /\ config' = loaded.value
                                     /\ Proceed(tested \o <<Step("loadConfig", TRUE)>>,
                                                filterEnabledDataUnits(Get(loaded.value, "dataUnits")),
                                                children - 1)
    /\ UNCHANGED <<filtered, exportOptions, args, options, wiz, saved, ioVars>>

\* runInteractivePrompts returns cfg to exportCommand: the summary, the data
\* units, the save, then the common tail
WizardReturned(lg, cfg) ==
    /\ config' = cfg
    /\ wiz' = NoWizard
    /\ saved' = IF Truthy(Get(cfg, "_saveToFile")) /\ Truthy(Get(cfg, "_saveFilePath"))
                THEN SavedConfigText(cfg) ELSE saved
    /\ Proceed(lg, buildDataUnitsFromInteractiveConfig(cfg), children)
    /\ UNCHANGED <<errors, filtered, written, exportOptions, args, options, ioVars>>

\* a prompt is answered and the wizard goes on to the prompt next
Answered(next) ==
    /\ log' = Append(log, Step(pc, TRUE))
    /\ pc' = next
    /\ UNCHANGED <<config, errors, dataUnits, filtered, written, exportOptions, args,
                   options, exitCode, saved, ioVars>>

SelectGlobalData ==
    /\ pc = "selectGlobalData"
    /\ \E ticked \in CheckboxAnswers(globalDataChoices, WizardGlobalSample) :
          wiz' = [wiz EXCEPT !.selectedGlobalData = ticked]
    /\ Answered("confirmFetchSites")
    /\ UNCHANGED <<spawned, children>>

\* fetchAvailableSites is started with no options
ConfirmFetchSites ==
    /\ pc = "confirmFetchSites"
    /\ \E fetchSites \in BOOLEAN :
          IF fetchSites
          THEN Answered("fetchAvailableSites") /\ Spawn(B2cArgv(<<Tok("sites"), Tok("list")>>,
                                                    [debug |-> Undefined, instance |-> Undefined]))
          ELSE Answered("inputSites") /\ UNCHANGED <<spawned, children>>
    /\ UNCHANGED wiz

\* a failed fetch of the site list ending the command
SitesFetchedOrFail ==
    /\ pc = "fetchAvailableSites"
    /\ \E result \in SitesListResults :
          LET availableSites == fetchAvailableSites(result)
          IN IF availableSites = Null
             THEN Fail(<<Step("fetchAvailableSites", FALSE)>>) /\ UNCHANGED wiz
             ELSE /\ wiz' = [wiz EXCEPT !.availableSites = availableSites]
                  /\ log' = Append(log, Step("fetchAvailableSites", TRUE))
                  /\ pc' = IF Len(availableSites.e) > 0 THEN "selectSites" ELSE "inputSites"
                  /\ UNCHANGED exitCode
    /\ Closed
    /\ UNCHANGED <<config, errors, dataUnits, filtered, written, exportOptions, args,
                   options, saved, ioVars>>

SitesFetched ==
    /\ pc = "fetchAvailableSites"
    /\ \E result \in SitesListResults :
          LET availableSites == fetchAvailableSites(result)
          IN /\ wiz' = [wiz EXCEPT !.availableSites = availableSites]
             /\ log' = Append(log, Step("fetchAvailableSites", availableSites # Null))
             /\ pc' = IF Truthy(availableSites) /\ Len(availableSites.e) > 0
                      THEN "selectSites" ELSE "inputSites"
    /\ Closed
    /\ UNCHANGED <<config, errors, dataUnits, filtered, written, exportOptions, args,
                   options, exitCode, saved, ioVars>>

\* the wizard asking for site data even when no site was selected
AfterSitesAlwaysAsks(selectedSites) ==
    /\ wiz' = [wiz EXCEPT !.selectedSites = selectedSites, !.todo = selectedSites]
    /\ Answered(IF Len(selectedSites) > 1 THEN "confirmSameData" ELSE "selectSiteData")
    /\ UNCHANGED <<spawned, children>>

\* "Step 3" up to its first prompt
AfterSites(selectedSites) ==
    /\ wiz' = [wiz EXCEPT !.selectedSites = selectedSites, !.todo = selectedSites]
    /\ Answered(IF Len(selectedSites) = 0 THEN "inputOutputDir"
                ELSE IF Len(selectedSites) > 1 THEN "confirmSameData"
                ELSE "selectSiteData")
    /\ UNCHANGED <<spawned, children>>

SelectSites ==
    /\ pc = "selectSites"
    /\ \E ticked \in SUBSET Range(Texts(wiz.availableSites)) :
          AfterSites(SelectSeq(Texts(wiz.availableSites), LAMBDA site : site \in ticked))

InputSites ==
    /\ pc = "inputSites"
    /\ \E sitesInput \in TypedInputs : AfterSites(SplitSites(sitesInput))

ConfirmSameData ==
    /\ pc = "confirmSameData"
    /\ \E sameDataForAll \in BOOLEAN :
          Answered(IF sameDataForAll THEN "selectSiteData" ELSE "selectSiteDataFor")
    /\ UNCHANGED <<wiz, spawned, children>>

\* one selection applied to every selected site
SelectSiteData ==
    /\ pc = "selectSiteData"
    /\ \E selectedSiteData \in CheckboxAnswers(siteDataChoices, WizardSiteDataSample) :
          wiz' = [wiz EXCEPT !.siteDataConfig =
                     SetAll(Obj(<<>>), wiz.selectedSites, ArrOf(selectedSiteData)),
                  !.todo = <<>>]
    /\ Answered("inputOutputDir")
    /\ UNCHANGED <<spawned, children>>

\* one turn of the loop configuring each site individually
SelectSiteDataFor ==
    /\ pc = "selectSiteDataFor"
    /\ \E selectedSiteData \in CheckboxAnswers(siteDataChoices, WizardSiteDataSample) :
          wiz' = [wiz EXCEPT !.siteDataConfig =
                     ObjectSet(wiz.siteDataConfig, Head(wiz.todo), ArrOf(selectedSiteData)),
                  !.todo = Tail(wiz.todo)]
    /\ Answered(IF Len(wiz.todo) = 1 THEN "inputOutputDir" ELSE "selectSiteDataFor")
    /\ UNCHANGED <<spawned, children>>

InputOutputDir ==
    /\ pc = "inputOutputDir"
    /\ \E outputDir \in OutputDirAnswers : wiz' = [wiz EXCEPT !.outputDir = outputDir]
    /\ Answered("inputArchiveName")
    /\ UNCHANGED <<spawned, children>>

InputArchiveName ==
    /\ pc = "inputArchiveName"
    /\ \E archiveNameTemplate \in ArchiveNameAnswers :
          wiz' = [wiz EXCEPT !.archiveNameTemplate = archiveNameTemplate]
    /\ Answered("confirmKeepArchive")
    /\ UNCHANGED <<spawned, children>>

\* the answer, then "Build config object"
ConfirmKeepArchive ==
    /\ pc = "confirmKeepArchive"
    /\ \E keepArchive \in BOOLEAN :
          wiz' = [wiz EXCEPT !.config =
                     WizardConfig(wiz.outputDir, wiz.archiveNameTemplate, Bool(keepArchive),
                                  wiz.selectedGlobalData, wiz.siteDataConfig)]
    /\ Answered("confirmSave")
    /\ UNCHANGED <<spawned, children>>

ConfirmSave ==
    /\ pc = "confirmSave"
    /\ \E saveConfig \in BOOLEAN :
          IF saveConfig
          THEN /\ wiz' = [wiz EXCEPT !.config = ObjectSet(wiz.config, "_saveToFile", Bool(TRUE))]
               /\ Answered("inputSavePath")
               /\ UNCHANGED <<spawned, children>>
          ELSE WizardReturned(Append(log, Step(pc, TRUE)), wiz.config)

InputSavePath ==
    /\ pc = "inputSavePath"
    /\ \E saveFilePath \in SavePathAnswers :
          WizardReturned(Append(log, Step(pc, TRUE)),
                         ObjectSet(wiz.config, "_saveFilePath", saveFilePath))

WizardPrompts ==
    {"selectGlobalData", "confirmFetchSites", "selectSites", "inputSites",
     "confirmSameData", "selectSiteData", "selectSiteDataFor", "inputOutputDir",
     "inputArchiveName", "confirmKeepArchive", "confirmSave", "inputSavePath"}

\* the user closes a prompt (Ctrl-C): the prompt rejects, runInteractivePrompts
\* throws and exportCommand's catch exits
AbortPrompt ==
    /\ pc \in WizardPrompts
    /\ Fail(<<Step(pc, FALSE)>>)
    /\ UNCHANGED <<config, errors, dataUnits, filtered, written, exportOptions, args,
                   options, spawned, children, wiz, saved, ioVars>>

\* outputPath and keepArchive of exportCommand
OutputPathOf(cfg) ==
    IF Truthy(options.interactive)
    THEN Str(PathResolve(OrElse(Get(cfg, "output_directory"), options.output).s))
    ELSE Str(PathResolve(options.output.s))

KeepArchiveOf(cfg) ==
    IF Truthy(options.interactive)
    THEN OrElse(Get(cfg, "keep_archive"), options.keepArchive)
    ELSE options.keepArchive

\* exportCommand: the options given to executeSiteExport for the configuration cfg
ExportOptionsOf(cfg) ==
    [outputPath |-> OutputPathOf(cfg),
     keepArchive |-> KeepArchiveOf(cfg),
     zipOnly |-> options.zipOnly,
     noDownload |-> Bool(~Truthy(options.download)),
     timeout |-> options.timeout,
     debug |-> options.debug,
     instance |-> options.instance]

\* executeSiteExport: the arguments built by buildExportArgs from its options
JobExportArgs(du, opts) ==
    LET outputPath == DefaultTo(opts.outputPath, Str(<<".", "/", "exports">>))
    IN buildExportArgs(du,
          [outputPath |-> Str(PathResolve(outputPath.s)),
           keepArchive |-> DefaultTo(opts.keepArchive, Bool(FALSE)),
           timeout |-> DefaultTo(opts.timeout, Num(<<"600">>))])

\* executeSiteExport: the arguments of the job export child
JobExportArgv(du, opts) ==
    B2cArgv(JobExportArgs(du, opts),
            [debug |-> DefaultTo(opts.debug, Bool(FALSE)),
             instance |-> DefaultTo(opts.instance, Null)])

\* getInstanceInfo resolves (it never rejects); exportOptions is built and
\* executeSiteExport starts with its own checkB2cCli
InstanceInfoReceived ==
    /\ pc = "getInstanceInfo"
    /\ \E result \in SetupConfigResults :
          log' = Append(log, Step("getInstanceInfo", ~result.rejected /\ result.code = 0))
    /\ exportOptions' = ExportOptionsOf(config)
    /\ ClosedThenSpawn(VersionArgv)
    /\ pc' = "executeSiteExport"
    /\ UNCHANGED <<config, errors, dataUnits, filtered, written, args, options,
                   exitCode, wiz, saved, ioVars>>

\* executeSiteExport after its checkB2cCli: buildExportArgs, then the job
\* export child is started with { debug, instance }
ExportCliChecked ==
    /\ pc = "executeSiteExport"
    /\ \E result \in VersionResults :
          IF ~checkB2cCli(result) \/ buildExportArgsThrows(dataUnits)
          THEN /\ Fail(<<Step("executeSiteExport", FALSE)>>)
               /\ Closed
               /\ UNCHANGED args
          ELSE /\ args' = JobExportArgs(dataUnits, exportOptions)
               /\ log' = Append(log, Step("executeSiteExport", TRUE))
               /\ ClosedThenSpawn(JobExportArgv(dataUnits, exportOptions))
                  /\ pc' = "job export"
                  /\ UNCHANGED exitCode
    /\ UNCHANGED <<config, errors, dataUnits, filtered, written, exportOptions,
                   options, wiz, saved, ioVars>>

\* the job export child closes: a rejection or a non-zero code is thrown to
\* exportCommand's catch, success falls off the end of exportCommand
JobExportClosed ==
    /\ pc = "job export"
    /\ \E result \in JobExportResults :
          IF result.rejected \/ result.code # 0
          THEN Fail(<<Step("job export", FALSE)>>)
          ELSE /\ log' = Append(log, Step("job export", TRUE))
               /\ Exit(0)
    /\ Closed
    /\ UNCHANGED <<config, errors, dataUnits, filtered, written, exportOptions, args,
                   options, wiz, saved, ioVars>>

Next ==
    \/ Start
    \/ CliChecked
    \/ ConnectivityTested
    \/ SelectGlobalData
    \/ ConfirmFetchSites
    \/ SitesFetched
    \/ SelectSites
    \/ InputSites
    \/ ConfirmSameData
    \/ SelectSiteData
    \/ SelectSiteDataFor
    \/ InputOutputDir
    \/ InputArchiveName
    \/ ConfirmKeepArchive
    \/ ConfirmSave
    \/ InputSavePath
    \/ AbortPrompt
    \/ InstanceInfoReceived
    \/ ExportCliChecked
    \/ JobExportClosed

Spec == InitExport /\ [][Next]_vars

(***************************************************************************)
(* Properties of the export command                                        *)
(***************************************************************************)
\* The data units of the configuration obtained: the dataUnits member of a
\* file, the global_data and sites members of a wizard result.
ConfiguredUnits ==
    IF HasKey(config, "dataUnits") THEN Get(config, "dataUnits")
    ELSE Obj(<<Entry("global_data", Get(config, "global_data")),
               Entry("sites", Get(config, "sites"))>>)

\* a job export child was spawned
JobExportInvoked ==
    \E k \in 1..Len(spawned) :
        Len(spawned[k]) >= 2 /\ spawned[k][1] = Tok("job") /\ spawned[k][2] = Tok("export")

\* C7: whenever the configuration obtained, from a file or from the wizard,
\* enables no data unit, the command has exited with code 1 and no job export
\* child was spawned.
C7_NoDataExitsBeforeExport ==
    (config # Undefined /\ TruePaths(ConfiguredUnits) = {}) =>
        /\ pc = "exited" /\ exitCode = 1
        /\ ~JobExportInvoked

\* the wizard completed with nothing ticked and the job export child running
C7_Witness ==
    /\ Truthy(options.interactive)
    /\ config # Undefined
    /\ TruePaths(ConfiguredUnits) = {}
    /\ pc = "job export"
    /\ JobExportInvoked

\* C8: the tree given to buildExportArgs has only true leaves: no false, no
\* other value and no empty nested mapping, in file mode and in wizard mode.
C8_CompilerInputIsFiltered ==
    args # <<>> => \A l \in LeavesOf(dataUnits) : l.leaf = Bool(TRUE)

\* the wizard's tree compiled with a site that has an empty mapping
C8_Witness ==
    /\ Truthy(options.interactive)
    /\ args # <<>>
    /\ \E ent \in Range(ObjectEntries(Get(dataUnits, "sites"))) : ent.v = Obj(<<>>)
    /\ HasEnabled(Get(dataUnits, "global_data"))

\* C9: the file saved by the export command for the wizard loads with
\* loadConfig, and filtering its dataUnits gives the selected global-data keys
\* and per-site data keys.
C9_SavedConfigLoadsBack ==
    saved # Undefined =>
        LET loaded == loadConfig(saved)
        IN /\ loaded.outcome = "loaded"
           /\ TruePaths(filterEnabledDataUnits(Get(loaded.value, "dataUnits")))
                 = TruePaths(ConfiguredUnits)

\* a saved selection of global data and of data for two sites
C9_Witness ==
    /\ saved # Undefined
    /\ loadConfig(saved).outcome = "validation failed"
    /\ HasEnabled(Get(saved, "global_data"))
    /\ Len(ObjectKeys(Get(saved, "sites"))) = 2
    /\ \E p \in TruePaths(Get(saved, "sites")) : Len(p) = 2

\* The steps that obtain the configuration: loadConfig, or the prompts of the
\* wizard with its site-list fetch.
ConfigurationSteps == WizardPrompts \cup {"loadConfig", "fetchAvailableSites"}

\* The place of each step in the order of the command: the binary check, the
\* credentials, the probe, the configuration (file or wizard), the tail of
\* exportCommand, the job export.
Rank(step) ==
    CASE step = "usage" -> 0
      [] step = "checkB2cCli" -> 1
      [] step = "checkDwJsonExists" -> 2
      [] step = "testInstanceConnectivity" -> 3
      [] step \in ConfigurationSteps -> 4
      [] step = "job export" -> 6
      [] OTHER -> 5

\* the three pre-flight steps are done and succeeded
PreflightPassed ==
    /\ Len(log) >= 3
    /\ \A r \in 1..3 : Rank(log[r].step) = r /\ log[r].ok

\* The steps whose failure does not end the command: the site-list fetch and
\* the instance-info query fall back instead.
BestEffortSteps == {"fetchAvailableSites", "getInstanceInfo"}

\* The children spawned, by their first argument, the site-list fetch aside.
SpawnedKinds ==
    LET kinds == [k \in 1..Len(spawned) |-> spawned[k][1][1]]
    IN SelectSeq(kinds, LAMBDA kind : kind # "sites")

PreflightKinds == <<"--version", "setup", "setup", "--version", "job">>

\* C10: the steps are done in the order binary check, credentials, probe,
\* configuration load or wizard, job export, each pre-flight step once; a step
\* that fails is the last one and the command has exited with code 1; and a
\* configuration is loaded, a prompt shown or a job export spawned only after
\* the three pre-flight steps succeeded.
C10_StepsInOrderFailFast ==
    /\ \A j \in 1..Len(log) :
          /\ IF j <= 3 THEN Rank(log[j].step) = j \/ (j = 1 /\ log[j].step = "usage")
             ELSE Rank(log[j].step) >= 4
          /\ j < Len(log) =>
                /\ Rank(log[j].step) <= Rank(log[j + 1].step)
                /\ Rank(log[j].step) \notin {0, 6}
          /\ (~log[j].ok /\ log[j].step \notin BestEffortSteps) =>
                j = Len(log) /\ pc = "exited" /\ exitCode = 1
    /\ (pc \in WizardPrompts \/ written # Undefined \/ config # Undefined) => PreflightPassed
    /\ JobExportInvoked =>
          /\ PreflightPassed
          /\ config # Undefined
          /\ \E i \in 4..Len(log) : Rank(log[i].step) = 4 /\ log[i].ok
    /\ SpawnedKinds = SubSeq(PreflightKinds, 1, Len(SpawnedKinds))
    /\ (pc = "exited" /\ exitCode = 0) => log[Len(log)] = Step("job export", TRUE)

\* every step done in file mode, the job export failing at the end
C10_Witness ==
    /\ pc = "exited" /\ exitCode = 1
    /\ ~Truthy(options.interactive)
    /\ [i \in 1..Len(log) |-> log[i].step] =
          <<"checkB2cCli", "checkDwJsonExists", "testInstanceConnectivity", "loadConfig",
            "getInstanceInfo", "executeSiteExport", "job export">>
    /\ ~log[Len(log)].ok

(***************************************************************************)
(* Specification of executeSiteExport's handling of a failed job export    *)
(***************************************************************************)
\* Number of lines on the standard output of a failed child.
MaxOutputLines == 2

\* The lines a failed child may write: a log line of level error, one of level
\* info, a line with an error object, a line that is not JSON, and the marker
\* in a line that is not JSON and in the msg of a log line.
OutputLines ==
    {Line(<<"{level:error,msg}">>,
          Obj(<<Entry("level", Str(<<"error">>)), Entry("msg", Str(<<"Job failed">>))>>)),
     Line(<<"{level:info,msg}">>,
          Obj(<<Entry("level", Str(<<"info">>)), Entry("msg", Str(<<"Starting">>))>>)),
     Line(<<"{error:{message}}">>,
          Obj(<<Entry("error", Obj(<<Entry("message", Str(<<"Unauthorized">>))>>))>>)),
     Line(<<"archive could not be written">>, Garbage),
     Line(<<"com.demandware.", "JobAlreadyRunningException", ": busy">>, Garbage),
     Line(<<"{level:error,msg:", "JobAlreadyRunningException", "}">>,
          Obj(<<Entry("level", Str(<<"error">>)),
                Entry("msg", Str(<<"JobAlreadyRunningException">>))>>))}

FailedExportResults ==
    {ChildResult(FALSE, 1, out, err) :
        out \in UNION {[1..n -> OutputLines] : n \in 0..MaxOutputLines},
        err \in {<<>>} \cup {<<l>> : l \in OutputLines}}

InitExportFailure ==
    /\ pc = "job export closed"
    /\ outcome \in FailedExportResults
    /\ thrown = Null
    /\ config = Undefined
    /\ errors = <<>>
    /\ dataUnits = Undefined
    /\ filtered = Undefined
    /\ written = Undefined
    /\ exportOptions = NoExportOptions
    /\ args = <<>>
    /\ options = Undefined
    /\ spawned = <<>>
    /\ children = 0
    /\ exitCode = -1
    /\ log = <<>>
    /\ wiz = NoWizard
    /\ saved = Undefined
    /\ cmdLine = Undefined
    /\ fsOps = <<>>
    /\ heap = <<>>

\* executeSiteExport from `if (result.code !== 0)` to its throw
ThrowExportError ==
    /\ pc = "job export closed"
    /\ outcome.code # 0
    /\ thrown' = ExportErrorMessage(outcome)
    /\ pc' = "thrown"
    /\ UNCHANGED <<config, errors, dataUnits, filtered, written, exportOptions, args,
                   options, spawned, children, exitCode, log, wiz, saved,
                   cmdLine, outcome, fsOps, heap>>

NextExportFailure == ThrowExportError

SpecExportFailure == InitExportFailure /\ [][NextExportFailure]_vars

\* standard output and standard error together
CombinedOutput == outcome.stdout \o outcome.stderr

\* C11: for a failed export child, when JobAlreadyRunningException occurs
\* anywhere in the standard output and standard error taken together, the
\* job-already-running error is thrown, whatever the log scan would find.
C11_MarkerAnywhereWins ==
    (pc = "thrown" /\ TextIncludes(CombinedOutput, "JobAlreadyRunningException")) =>
        thrown = JobAlreadyRunningMessage

\* the marker on standard error only, behind a standard output that the log
\* scan finds a message in
C11_Witness ==
    /\ pc = "thrown"
    /\ TextIncludes(outcome.stderr, "JobAlreadyRunningException")
    /\ ~TextIncludes(outcome.stdout, "JobAlreadyRunningException")
    /\ outcome.stdout # <<>>
    /\ thrown = Str(<<"Job failed">>)

\* The messages the lines carry, in output order: msg of a line with level
\* error, or error.message.
CarriedMessages(lines) ==
    LET carries(l) ==
          \/ (Get(l.json, "level") = Str(<<"error">>) /\ Truthy(Get(l.json, "msg")))
          \/ Truthy(Get(Get(l.json, "error"), "message"))
        carrying == SelectSeq(lines, carries)
    IN [i \in 1..Len(carrying) |->
           IF Get(carrying[i].json, "level") = Str(<<"error">>)
              /\ Truthy(Get(carrying[i].json, "msg"))
           THEN Get(carrying[i].json, "msg")
           ELSE Get(Get(carrying[i].json, "error"), "message")]

\* the text of the lines, one after the other
RECURSIVE RawText(_)
RawText(lines) ==
    IF lines = <<>> THEN <<>>
    ELSE Head(lines).s \o (IF Len(lines) > 1 THEN <<"\n">> ELSE <<>>) \o RawText(Tail(lines))

\* C12: without the marker, the error thrown is the first message carried by
\* a log line, in output order; if no line carries one, the raw combined
\* output; and if the output is empty, the fixed generic text.
C12_MessageResolution ==
    (pc = "thrown" /\ ~TextIncludes(CombinedOutput, "JobAlreadyRunningException")) =>
        LET messages == CarriedMessages(CombinedOutput)
        IN IF messages # <<>> THEN thrown = messages[1]
           ELSE IF CombinedOutput # <<>> THEN thrown = Str(RawText(CombinedOutput))
           ELSE thrown.s # <<>>

\* output without marker and without message: the generic text is thrown
C12_Witness ==
    /\ pc = "thrown"
    /\ outcome.stderr = <<>>
    /\ Len(outcome.stdout) = 2
    /\ outcome.stdout[1].json = Garbage
    /\ Get(outcome.stdout[2].json, "level") = Str(<<"info">>)
    /\ thrown = Str(<<"Export failed">>)

(***************************************************************************)
(* Specification of the validate command (commands/validate.js)            *)
(***************************************************************************)
\* `validate` with or without --config (which defaults to ./export-config.json)
ValidateCommandLines ==
    {[config |-> c] : c \in {Undefined, Str(<<".", "/", "my-config.json">>)}}

ParseValidate(a) ==
    [config |-> IF a.config # Undefined THEN a.config
                ELSE Str(<<".", "/", "export-config.json">>)]

InitValidateCommand ==
    /\ pc = "validateCommand"
    /\ cmdLine \in ValidateCommandLines
    /\ options = ParseValidate(cmdLine)
    /\ written \in ConfigFiles
    /\ config = Undefined
    /\ errors = <<>>
    /\ dataUnits = Undefined
    /\ filtered = Undefined
    /\ exportOptions = NoExportOptions
    /\ args = <<>>
    /\ spawned = <<>>
    /\ children = 0
    /\ exitCode = -1
    /\ log = <<>>
    /\ wiz = NoWizard
    /\ saved = Undefined
    /\ outcome = Undefined
    /\ thrown = Null
    /\ fsOps = <<>>
    /\ heap = <<>>

\* validateCommand up to the return of loadConfig, or the catch of what it throws
ValidateLoadConfig ==
    /\ pc = "validateCommand"
    /\ LET loaded == loadConfig(written)
       IN /\ outcome' = loaded.outcome
          /\ fsOps' = loaded.calls
          /\ errors' = loaded.errors
          /\ IF loaded.outcome = "loaded"
             THEN /\ config' = loaded.value
                  /\ thrown' = Null
                  /\ pc' = "filterEnabledDataUnits"
                  /\ UNCHANGED <<exitCode, log>>
             ELSE /\ thrown' = Str(loaded.message)
                  /\ Fail(<<Step("loadConfig", FALSE)>>)
                  /\ UNCHANGED config
    /\ UNCHANGED <<dataUnits, filtered, written, exportOptions, args, options, spawned,
                   children, wiz, saved, cmdLine, heap>>

\* the summary, with the warning treated as a failure
ValidateSummaryWarningFails ==
    /\ pc = "filterEnabledDataUnits"
    /\ dataUnits' = filterEnabledDataUnits(Get(config, "dataUnits"))
    /\ log' = Append(log, Step(IF ObjectKeys(dataUnits') = <<>> THEN "warning"
                               ELSE "printExportSummary", TRUE))
    /\ Exit(IF ObjectKeys(dataUnits') = <<>> THEN 1 ELSE 0)
    /\ UNCHANGED <<config, errors, filtered, written, exportOptions, args, options, spawned,
                   children, wiz, saved, ioVars>>

\* validateCommand after loadConfig: the summary or the warning, then the end
\* of the process
ValidateSummary ==
    /\ pc = "filterEnabledDataUnits"
    /\ dataUnits' = filterEnabledDataUnits(Get(config, "dataUnits"))
    /\ log' = Append(log, Step(IF ObjectKeys(dataUnits') = <<>> THEN "warning"
                               ELSE "printExportSummary", TRUE))
    /\ Exit(0)
    /\ UNCHANGED <<config, errors, filtered, written, exportOptions, args, options, spawned,
                   children, wiz, saved, ioVars>>

NextValidateCommand == ValidateLoadConfig \/ ValidateSummary

SpecValidateCommand == InitValidateCommand /\ [][NextValidateCommand]_vars

\* C13: loadConfig fails in a fixed precedence. A path that does not exist
\* gives the not-found error and nothing is read or parsed; otherwise content
\* that is not JSON gives the parse error, which carries the syntax message,
\* and validateConfig is not called; otherwise a configuration validateConfig
\* rejects gives the validation error with its violations; a validation error
\* is never reported as a parse error nor a parse error as a validation error.
C13_LoadFailuresInPrecedence ==
    pc # "validateCommand" =>
        IF written = NoFile
        THEN /\ outcome = "not found"
             /\ fsOps = <<"existsSync">>
             /\ thrown = Str(<<"Configuration file not found: ">>)
        ELSE IF JSONparseThrows(written)
        THEN /\ outcome = "invalid JSON"
             /\ thrown = Str(<<"Invalid JSON in configuration file: ", "Unexpected token">>)
             /\ fsOps = <<"existsSync", "readFileSync", "JSON.parse">>
             /\ errors = <<>>
        ELSE IF validateErrors(JSONparse(written)) # <<>>
        THEN /\ outcome = "validation failed"
             /\ thrown = Str(<<"Configuration validation failed:">>)
             /\ errors = validateErrors(JSONparse(written))
        ELSE /\ outcome = "loaded"
             /\ thrown = Null

\* a file that parses and is rejected by validateConfig has been loaded
C13_Witness ==
    /\ pc = "exited"
    /\ written # NoFile
    /\ ~JSONparseThrows(written)
    /\ outcome = "validation failed"
    /\ Len(errors) > 0
    /\ Len(fsOps) = 4

(***************************************************************************)
(* The boolean form of a site entry                                        *)
(***************************************************************************)
\* The tree du with every site entry `<id>: true` written `<id>: {all: true}`.
AllForTrue(du) ==
    LET sites == Get(du, "sites")
    IN IF sites.t # "object" THEN du
       ELSE ObjectSet(du, "sites",
                Obj([i \in 1..Len(sites.e) |->
                        IF sites.e[i].v = Bool(TRUE)
                        THEN Entry(sites.e[i].k, Obj(<<Entry("all", Bool(TRUE))>>))
                        ELSE sites.e[i]]))

\* the text written has a site entry `<id>: true`
HasTrueSite ==
    LET sites == Get(JSONparse(written), "sites")
    IN \E i \in 1..Len(sites.e) : sites.e[i].v = Bool(TRUE)

\* C14: the arguments compiled from a filtered configuration are those
\* compiled from the same configuration with every site entry `<id>: true`
\* written `<id>: {all: true}`, filtered the same way, also when other sites
\* list specific data keys.
C14_TrueSiteMeansAll ==
    (pc = "compiled" /\ dataUnits = filterEnabledDataUnits(JSONparse(written))) =>
        args = buildExportArgs(filterEnabledDataUnits(AllForTrue(JSONparse(written))),
                               exportOptions)

\* a configuration with a site `true` next to a site listing keys has been
\* filtered and compiled: the site is named and no data unit stands for it
C14_Witness ==
    /\ pc = "compiled"
    /\ dataUnits = filterEnabledDataUnits(JSONparse(written))
    /\ HasTrueSite
    /\ \E i \in 1..Len(Get(JSONparse(written), "sites").e) :
          Get(Get(JSONparse(written), "sites").e[i].v, "content") = Bool(TRUE)
    /\ \E i \in 1..Len(args) - 1 : args[i] = Tok("--site-data") /\ args[i + 1] = Tok("content")

(***************************************************************************)
(* Properties of the export command's command line                         *)
(***************************************************************************)
\* C15: export invoked with neither a configuration path nor interactive mode
\* exits with code 1 as a usage error, before the binary check, with no child
\* spawned and no file read.
C15_NeitherConfigNorInteractive ==
    (pc # "exportCommand" /\ cmdLine.config = Undefined /\ ~cmdLine.interactive) =>
        /\ pc = "exited"
        /\ exitCode = 1
        /\ spawned = <<>>
        /\ log = <<Step("usage", FALSE)>>

\* export without -c and -i, under the definition whose --config has a
\* default: the default file has been loaded and job export spawned
C15_Witness ==
    /\ cmdLine.config = Undefined
    /\ ~cmdLine.interactive
    /\ \E j \in 1..Len(log) : log[j] = Step("loadConfig", TRUE)
    /\ JobExportInvoked

\* argv holds --log-level followed by trace
HasLogLevelTrace(argv) ==
    \E i \in 1..Len(argv) - 1 : argv[i] = Tok("--log-level") /\ argv[i + 1] = Tok("trace")

\* C16: every invocation of the external binary ends with --json, and holds
\* --log-level trace exactly when debug mode is active.
C16_JsonLastTraceIffDebug ==
    \A k \in 1..Len(spawned) :
        /\ spawned[k][Len(spawned[k])] = Tok("--json")
        /\ HasLogLevelTrace(spawned[k]) <=> Truthy(options.debug)

\* under --debug the site list has been fetched: `sites list --json` without
\* the log level, after `--version` without --json
C16_Witness ==
    /\ Truthy(options.debug)
    /\ Len(spawned) > 0
    /\ spawned[1] = VersionArgv
    /\ \E k \in 1..Len(spawned) : spawned[k] = <<Tok("sites"), Tok("list"), Tok("--json")>>
    /\ JobExportInvoked

(***************************************************************************)
(* Properties of the export command's prompts and children                 *)
(***************************************************************************)
\* a prompt of the wizard was aborted
PromptAborted ==
    \E j \in 1..Len(log) : log[j].step \in WizardPrompts /\ ~log[j].ok

\* C17: after the abort of any prompt of the wizard, the command has exited
\* with a non-zero code, no configuration file has been written and job
\* export has not been invoked.
C17_AbortEndsWizard ==
    PromptAborted =>
        /\ pc = "exited"
        /\ exitCode > 0
        /\ saved = Undefined
        /\ ~JobExportInvoked
        /\ children = 0

\* the last prompt, the path to save to, was aborted after a selection
C17_Witness ==
    /\ PromptAborted
    /\ log[Len(log)] = Step("inputSavePath", FALSE)
    /\ pc = "exited"

\* C18: at most one invocation of the external binary is in flight: every
\* child has closed before the next is spawned, and none is left at the exit.
C18_OneChildInFlight ==
    /\ children \in {0, 1}
    /\ children = 1 => Len(spawned) > 0
    /\ pc = "exited" => children = 0

\* binary check, probe, site list, instance info, second binary check and
\* job export have been spawned one after the other; job export is running
C18_Witness ==
    /\ Len(spawned) = 6
    /\ \E k \in 1..Len(spawned) : spawned[k][1] = Tok("sites")
    /\ JobExportInvoked
    /\ children = 1

(***************************************************************************)
(* The archive name                                                        *)
(***************************************************************************)
\* the configuration loaded, with another archive.name
WithOtherArchiveName ==
    ObjectSet(config, "archive", Obj(<<Entry("name", Str(<<"nightly-", "{date}">>))>>))

\* C19: the archive name is part of the job export invocation: the
\* invocation made for the configuration loaded differs from the one made for
\* the same configuration with another archive.name.
C19_ArchiveNameInInvocation ==
    (JobExportInvoked /\ ~Truthy(options.interactive)) =>
        spawned[Len(spawned)] #
            JobExportArgv(filterEnabledDataUnits(Get(WithOtherArchiveName, "dataUnits")),
                          ExportOptionsOf(WithOtherArchiveName))

\* job export has been invoked for a configuration file that names its archive
C19_Witness ==
    /\ JobExportInvoked
    /\ ~Truthy(options.interactive)
    /\ Get(Get(config, "archive"), "name") = Str(<<"export-", "{date}", "-", "{timestamp}">>)
    /\ WithOtherArchiveName # config
    /\ spawned[Len(spawned)] = JobExportArgv(dataUnits, exportOptions)

(***************************************************************************)
(* Specification of executeSiteImport (index.js)                           *)
(***************************************************************************)
\* the arguments with --keep-archive whatever keepArchive is
ImportArgsKeepAlways(archivePath, opts) ==
    <<Tok("job"), Tok("import"), archivePath,
      Tok("--timeout"), DefaultTo(opts.timeout, Num(<<"600">>)).s, Tok("--keep-archive")>>

\* const args = ["job", "import", archivePath]; --timeout; --keep-archive
ImportArgs(archivePath, opts) ==
    <<Tok("job"), Tok("import"), archivePath,
      Tok("--timeout"), DefaultTo(opts.timeout, Num(<<"600">>)).s>>
    \o (IF Truthy(DefaultTo(opts.keepArchive, Bool(FALSE)))
        THEN <<Tok("--keep-archive")>> ELSE <<>>)

\* JSON.parse of a whole output: only a single line can be one JSON text
ParseOutput(lines) == IF Len(lines) = 1 THEN lines[1].json ELSE Garbage

\* the message of the Error thrown for an import child with a non-zero code
ImportErrorMessage(res) ==
    LET output == ParseOutput(IF res.stdout # <<>> THEN res.stdout ELSE res.stderr)
    IN IF output.t \in {"garbage", "null"}
       THEN IF res.stderr # <<>> THEN Str(RawText(res.stderr))
            ELSE IF res.stdout # <<>> THEN Str(RawText(res.stdout))
            ELSE Str(<<"Import failed with unknown error">>)
       ELSE IF Truthy(Get(output, "error"))
            THEN OrElse(Get(Get(output, "error"), "message"), Get(output, "error"))
            ELSE IF Truthy(Get(output, "message")) THEN Get(output, "message")
                 ELSE Str(<<"Import failed">>)

\* The calls of executeSiteImport: the path, whether a file is there, the options.
ImportCalls ==
    {[archivePath |-> p, exists |-> x,
      options |-> [timeout |-> t, keepArchive |-> k, debug |-> g, instance |-> n]] :
        p \in {<<"site.zip">>, <<"/", "srv", "/", "site.zip">>},
        x \in BOOLEAN,
        t \in {Undefined, Num(<<"30">>), Str(<<"1200">>)},
        k \in {Undefined, Bool(TRUE), Bool(FALSE)},
        g \in {Undefined, Bool(TRUE)},
        n \in {Undefined, Str(<<"staging">>)}}

\* How a `b2c job import` child may end.
JobImportResults ==
    {ChildResult(FALSE, 0, <<Line(<<"{status}">>, Obj(<<Entry("status", Str(<<"OK">>))>>))>>, <<>>),
     ChildResult(FALSE, 1, <<Line(<<"{error:{message}}">>,
         Obj(<<Entry("error", Obj(<<Entry("message", Str(<<"Unauthorized">>))>>))>>))>>, <<>>),
     ChildResult(FALSE, 1, <<>>, <<Line(<<"archive is corrupt">>, Garbage)>>),
     ChildResult(TRUE, 0, <<>>, <<>>)}

InitImport ==
    /\ pc = "executeSiteImport"
    /\ cmdLine \in ImportCalls
    /\ options = cmdLine.options
    /\ config = Undefined
    /\ errors = <<>>
    /\ dataUnits = Undefined
    /\ filtered = Undefined
    /\ written = Undefined
    /\ exportOptions = NoExportOptions
    /\ args = <<>>
    /\ spawned = <<>>
    /\ children = 0
    /\ exitCode = -1
    /\ log = <<>>
    /\ wiz = NoWizard
    /\ saved = Undefined
    /\ outcome = Undefined
    /\ thrown = Null
    /\ fsOps = <<>>
    /\ heap = <<>>

\* executeSiteImport up to its await: existsSync, the arguments, the child
ImportStart ==
    /\ pc = "executeSiteImport"
    /\ fsOps' = <<"existsSync">>
    /\ IF ~cmdLine.exists
       THEN /\ thrown' = Str(<<"Archive file not found: ">> \o cmdLine.archivePath)
            /\ pc' = "thrown"
            /\ UNCHANGED <<args, spawned, children>>
       ELSE /\ args' = ImportArgs(cmdLine.archivePath, options)
            /\ Spawn(B2cArgv(args', [debug |-> DefaultTo(options.debug, Bool(FALSE)),
                                     instance |-> DefaultTo(options.instance, Null)]))
            /\ pc' = "job import"
            /\ UNCHANGED thrown
    /\ UNCHANGED <<config, errors, dataUnits, filtered, written, exportOptions, options,
                   exitCode, log, wiz, saved, cmdLine, outcome, heap>>

\* the job import child closes: the Error thrown, or the result returned
ImportClosed ==
    /\ pc = "job import"
    /\ \E result \in JobImportResults :
          /\ outcome' = result
          /\ IF result.rejected
             THEN thrown' = Str(<<"spawn failed">>) /\ pc' = "thrown"
             ELSE IF result.code # 0
                  THEN thrown' = ImportErrorMessage(result) /\ pc' = "thrown"
                  ELSE thrown' = Null /\ pc' = "returned"
    /\ Closed
    /\ UNCHANGED <<config, errors, dataUnits, filtered, written, exportOptions, args,
                   options, exitCode, log, wiz, saved, cmdLine, fsOps, heap>>

NextImport == ImportStart \/ ImportClosed

SpecImport == InitImport /\ [][NextImport]_vars

\* C20: executeSiteImport on a path that does not exist throws the
\* archive-not-found error with no argument built and no child spawned; on
\* a path that exists its arguments are exactly job import <archivePath>
\* --timeout <seconds>, followed by --keep-archive exactly when keepArchive
\* is set, and the child is spawned with them.
C20_ImportArgsOrNotFound ==
    pc # "executeSiteImport" =>
        IF ~cmdLine.exists
        THEN /\ pc = "thrown"
             /\ thrown = Str(<<"Archive file not found: ">> \o cmdLine.archivePath)
             /\ args = <<>>
             /\ spawned = <<>>
        ELSE LET seconds == IF options.timeout = Undefined THEN <<"600">> ELSE options.timeout.s
                 fixed == <<<<"job">>, <<"import">>, cmdLine.archivePath, <<"--timeout">>, seconds>>
             IN /\ args = IF options.keepArchive = Bool(TRUE)
                          THEN fixed \o <<<<"--keep-archive">>>> ELSE fixed
                /\ Len(spawned) = 1
                /\ SubSeq(spawned[1], 1, Len(args)) = args

\* an import with keepArchive set has been spawned and has returned
C20_Witness ==
    /\ pc = "returned"
    /\ cmdLine.exists
    /\ options.keepArchive = Bool(TRUE)
    /\ Len(args) = 6
    /\ Len(spawned) = 1

(***************************************************************************)
(* Properties of the validate command                                      *)
(***************************************************************************)
\* C21: the validate command ends with code 0 exactly when the file exists,
\* parses and passes validateConfig, also when no data unit is enabled (a
\* warning only); in every other case it ends with code 1.
C21_ValidateExitCode ==
    pc = "exited" =>
        LET valid == /\ written # NoFile
                     /\ ~JSONparseThrows(written)
                     /\ validateErrors(JSONparse(written)) = <<>>
        IN /\ exitCode = IF valid THEN 0 ELSE 1
           /\ spawned = <<>>

\* a valid file with no data unit enabled: the warning, and code 0
C21_Witness ==
    /\ pc = "exited"
    /\ exitCode = 0
    /\ log = <<Step("warning", TRUE)>>
    /\ dataUnits = Obj(<<>>)
    /\ Get(config, "dataUnits") # Obj(<<>>)

(***************************************************************************)
(* Specification of validateConfig and filterEnabledDataUnits on objects   *)
(* held by reference                                                       *)
(***************************************************************************)
\* The objects given: data-units trees and parsed configuration files.
StoredObjects ==
    FilterTrees \cup {JSONparse(text) : text \in ConfigFiles \ {NoFile, Garbage}}

InitStored ==
    /\ pc = "stored"
    /\ written \in StoredObjects
    /\ heap = HeapStore(<<>>, written).heap
    /\ config = HeapStore(<<>>, written).v
    /\ errors = <<>>
    /\ dataUnits = Undefined
    /\ filtered = Undefined
    /\ exportOptions = NoExportOptions
    /\ args = <<>>
    /\ options = Undefined
    /\ spawned = <<>>
    /\ children = 0
    /\ exitCode = -1
    /\ log = <<>>
    /\ wiz = NoWizard
    /\ saved = Undefined
    /\ cmdLine = Undefined
    /\ outcome = Undefined
    /\ thrown = Null
    /\ fsOps = <<>>

\* validateConfig(config): throws, or returns config
StoredValidate ==
    /\ pc = "stored"
    /\ LET r == validateConfig(Deref(heap, config))
       IN /\ errors' = r.errors
          /\ filtered' = IF r.ok THEN config ELSE Undefined
          /\ pc' = IF r.ok THEN "valid" ELSE "invalid"
    /\ UNCHANGED <<config, dataUnits, written, exportOptions, args, cmdVars>>

\* filterEnabledDataUnits(config)
StoredFilter ==
    /\ pc = "stored"
    /\ LET r == HeapFilter(heap, config)
       IN /\ heap' = r.heap
          /\ filtered' = r.v
    /\ pc' = "filtered"
    /\ UNCHANGED <<config, errors, dataUnits, written, exportOptions, args,
                   options, spawned, children, exitCode, log, wiz, saved,
                   cmdLine, outcome, thrown, fsOps>>

NextStored == StoredValidate \/ StoredFilter

SpecStored == InitStored /\ [][NextStored]_vars

\* C22: validateConfig on success returns the very object it was given, and
\* the object is as it was; filterEnabledDataUnits leaves every object of its
\* argument as it was and returns a tree of new objects, none of them an
\* object of the argument.
C22_InputsUntouchedResultFresh ==
    LET given == HeapStore(<<>>, written)
    IN /\ SubSeq(heap, 1, Len(given.heap)) = given.heap
       /\ config = given.v
       /\ pc = "valid" => (filtered = config /\ heap = given.heap)
       /\ pc = "filtered" =>
             /\ Reach(heap, filtered) \cap Reach(heap, config) = {}
             /\ Deref(heap, filtered) = filterEnabledDataUnits(written)

\* a tree with an enabled leaf two mappings down has been filtered
C22_Witness ==
    /\ pc = "filtered"
    /\ Cardinality(Reach(heap, filtered)) >= 3
    /\ Cardinality(Reach(heap, config)) >= 3

(***************************************************************************)
(* The timeout of the export                                               *)
(***************************************************************************)
\* The largest number of seconds whose decimal text is recognised.
MaxSeconds == 1200

\* the decimal texts of the integers from 1 on
PositiveIntegerTexts == {ToString(n) : n \in 1..MaxSeconds}

\* C23: in every invocation of the external binary, what follows --timeout is
\* the decimal text of an integer of at least 1, whatever was given for the
\* timeout option.
C23_TimeoutIsPositiveInteger ==
    \A k \in 1..Len(spawned) : \A i \in 1..Len(spawned[k]) - 1 :
        spawned[k][i] = Tok("--timeout") =>
            /\ Len(spawned[k][i + 1]) = 1
            /\ spawned[k][i + 1][1] \in PositiveIntegerTexts

\* job export has been invoked with the timeout text given on the command line
C23_Witness ==
    /\ JobExportInvoked
    /\ cmdLine.timeout = Str(<<"soon">>)
    /\ \E i \in 1..Len(args) - 1 : args[i] = Tok("--timeout") /\ args[i + 1] = <<"soon">>

(***************************************************************************)
(* Properties of the data-unit catalog                                     *)
(***************************************************************************)
\* the identifiers found in both catalogs
SharedCatalogKeys == Range(globalDataOptions) \cap Range(siteDataOptions)

\* no identifier is listed twice in a catalog, and each lists `all`
CatalogsWellFormed ==
    /\ Cardinality(Range(globalDataOptions)) = Len(globalDataOptions)
    /\ Cardinality(Range(siteDataOptions)) = Len(siteDataOptions)
    /\ Includes(globalDataOptions, "all")
    /\ Includes(siteDataOptions, "all")

\* C24 as stated: the two catalogs validateConfig has checked a configuration
\* against are disjoint, each contains `all`, and neither lists an identifier
\* twice.
C24_CatalogsDisjoint ==
    pc # "validate" =>
        /\ CatalogsWellFormed
        /\ SharedCatalogKeys = {}

\* C24: of the two catalogs validateConfig has checked a configuration
\* against, neither lists an identifier twice, each contains `all`, and the
\* identifiers found in both are all, ocapi_settings and sorting_rules.
C24_CatalogsShareThreeKeys ==
    pc # "validate" =>
        /\ CatalogsWellFormed
        /\ SharedCatalogKeys = {"all", "ocapi_settings", "sorting_rules"}

\* a configuration naming a global unit and a site unit, each of its own
\* catalog only, has been validated against the catalogs
C24_Witness ==
    /\ pc = "valid"
    /\ Get(Get(Get(config, "dataUnits"), "global_data"), "meta_data") = Bool(TRUE)
    /\ Get(Get(Get(Get(config, "dataUnits"), "sites"), "RefArch"), "content") = Bool(TRUE)
    /\ ~Includes(siteDataOptions, "meta_data")
    /\ ~Includes(globalDataOptions, "content")

(***************************************************************************)
(* Specification of generateArchiveName (config.js)                        *)
(***************************************************************************)
\* The replacement text of String.prototype.replace, its patterns expanded:
\* the piece "$&" stands for the substring matched, "$$" for a dollar sign.
RECURSIVE ExpandReplacement(_, _)
ExpandReplacement(replacement, matched) ==
    IF replacement = <<>> THEN <<>>
    ELSE (CASE Head(replacement) = "$&" -> <<matched>>
            [] Head(replacement) = "$$" -> <<"$">>
            [] OTHER -> <<Head(replacement)>>)
         \o ExpandReplacement(Tail(replacement), matched)

\* text.replace(pattern, replacement), pattern a string: the first occurrence
ReplaceFirst(text, pattern, replacement) ==
    IF ~Includes(text, pattern) THEN text
    ELSE LET i == CHOOSE j \in 1..Len(text) :
                     text[j] = pattern /\ \A m \in 1..(j - 1) : text[m] # pattern
         IN SubSeq(text, 1, i - 1) \o ExpandReplacement(replacement, pattern)
            \o SubSeq(text, i + 1, Len(text))

\* generateArchiveName(template, context) at the time now
generateArchiveName(template, context, now) ==
    LET site == OrElse(Get(context, "site"), Str(<<"all">>))
    IN ReplaceFirst(
          ReplaceFirst(
             ReplaceFirst(
                ReplaceFirst(template, "{date}", now.date),
                "{time}", now.time),
             "{timestamp}", now.timestamp),
          "{site}", site.s)

\* Number of pieces of a template.
MaxTemplatePieces == 3

TemplatePieces == {"{date}", "{time}", "{timestamp}", "{site}", "{env}", "export-"}

\* The calls of generateArchiveName: the template, the context, the clock.
ArchiveNameCalls ==
    {[template |-> t, context |-> c, now |-> n] :
        t \in UNION {[1..len -> TemplatePieces] : len \in 0..MaxTemplatePieces},
        c \in {Obj(<<>>)} \cup {Obj(<<Entry("site", Str(id))>>) :
                                   id \in {<<"RefArch">>, <<"$&">>, <<>>}},
        n \in {[date |-> <<"2026-11-01">>, time |-> <<"10-20-30">>,
                timestamp |-> <<"1793528430000">>],
               [date |-> <<"2027-01-02">>, time |-> <<"00-00-00">>,
                timestamp |-> <<"1798848000000">>]}}

InitArchiveName ==
    /\ pc = "generateArchiveName"
    /\ cmdLine \in ArchiveNameCalls
    /\ outcome = Undefined
    /\ config = Undefined
    /\ errors = <<>>
    /\ dataUnits = Undefined
    /\ filtered = Undefined
    /\ written = Undefined
    /\ exportOptions = NoExportOptions
    /\ args = <<>>
    /\ options = Undefined
    /\ spawned = <<>>
    /\ children = 0
    /\ exitCode = -1
    /\ log = <<>>
    /\ wiz = NoWizard
    /\ saved = Undefined
    /\ thrown = Null
    /\ fsOps = <<>>
    /\ heap = <<>>

GenerateName ==
    /\ pc = "generateArchiveName"
    /\ outcome' = Str(generateArchiveName(cmdLine.template, cmdLine.context, cmdLine.now))
    /\ pc' = "returned"
    /\ UNCHANGED <<config, errors, dataUnits, filtered, written, exportOptions, args,
                   options, spawned, children, exitCode, log, wiz, saved,
                   cmdLine, thrown, fsOps, heap>>

NextArchiveName == GenerateName

SpecArchiveName == InitArchiveName /\ [][NextArchiveName]_vars

\* what stands for the placeholder p: the clock's texts, context.site when
\* provided and `all` otherwise
PlaceholderText(p) ==
    CASE p = "{date}" -> cmdLine.now.date
      [] p = "{time}" -> cmdLine.now.time
      [] p = "{timestamp}" -> cmdLine.now.timestamp
      [] p = "{site}" -> IF HasKey(cmdLine.context, "site")
                         THEN Get(cmdLine.context, "site").s ELSE <<"all">>

\* the template with the first occurrence of each of the four placeholders
\* replaced and every other piece as it is
RECURSIVE RenderFrom(_)
RenderFrom(i) ==
    LET t == cmdLine.template
    IN IF i > Len(t) THEN <<>>
       ELSE (IF t[i] \in {"{date}", "{time}", "{timestamp}", "{site}"}
                /\ \A m \in 1..(i - 1) : t[m] # t[i]
             THEN PlaceholderText(t[i]) ELSE <<t[i]>>)
            \o RenderFrom(i + 1)

\* C25: for a fixed time, generateArchiveName replaces the first occurrence
\* of each of {date}, {time}, {timestamp} and {site}, {site} by context.site
\* when provided and by `all` otherwise, and leaves everything else of the
\* template as it is; a template with none of the four is returned unchanged.
C25_FirstOccurrencesReplaced ==
    pc = "returned" => outcome = Str(RenderFrom(1))

\* a site holding a replacement pattern: {site} comes back in place of it
C25_Witness ==
    /\ pc = "returned"
    /\ Get(cmdLine.context, "site") = Str(<<"$&">>)
    /\ cmdLine.template = <<"export-", "{site}", "{site}">>
    /\ outcome = Str(<<"export-", "{site}", "{site}">>)

(***************************************************************************)
(* Specification of the init command (commands/init.js)                    *)
(***************************************************************************)
minimalConfig ==
    Obj(<<Entry("archive", Obj(<<Entry("name", Str(<<"export-", "{date}", "-", "{timestamp}">>))>>)),
          Entry("dataUnits",
                Obj(<<Entry("global_data", Obj(<<Entry("meta_data", Bool(TRUE)),
                                                 Entry("custom_types", Bool(TRUE))>>)),
                      Entry("sites", Obj(<<Entry("YourSiteId",
                            Obj(<<Entry("content", Bool(TRUE)),
                                  Entry("site_preferences", Bool(TRUE)),
                                  Entry("customer_groups", Bool(TRUE))>>))>>))>>))>>)

\* generateFullConfig(): every option of the two catalogs, set to false
generateFullConfig ==
    LET allFalse(opts) == Obj([i \in 1..Len(opts) |-> Entry(opts[i], Bool(FALSE))])
    IN Obj(<<Entry("archive", Obj(<<Entry("name", Str(<<"export-", "{date}", "-", "{timestamp}">>))>>)),
             Entry("dataUnits",
                   Obj(<<Entry("global_data", allFalse(globalDataOptions)),
                         Entry("sites", Obj(<<Entry("ExampleSite", allFalse(siteDataOptions))>>)),
                         Entry("customer_lists", Obj(<<>>)),
                         Entry("inventory_lists", Obj(<<>>))>>))>>)

\* existsSync finding nothing, whatever is there
ExistsSyncNever(content) == FALSE

\* fs.existsSync(outputPath), content being what is at the path
ExistsSync(content) == content # NoFile

\* The init command lines, what is at the output path, and whether the
\* path can be written to.
InitCommandLines ==
    {[output |-> o, full |-> f, existing |-> x, writable |-> w] :
        o \in {Undefined, Str(<<"conf", "/", "export.json">>)}, f \in BOOLEAN,
        x \in ConfigFiles, w \in BOOLEAN}

InitInit ==
    /\ pc = "initCommand"
    /\ cmdLine \in InitCommandLines
    /\ options = [output |-> IF cmdLine.output # Undefined THEN cmdLine.output
                             ELSE Str(<<".", "/", "export-config.json">>),
                  full |-> Bool(cmdLine.full)]
    /\ written = cmdLine.existing
    /\ config = Undefined
    /\ errors = <<>>
    /\ dataUnits = Undefined
    /\ filtered = Undefined
    /\ exportOptions = NoExportOptions
    /\ args = <<>>
    /\ spawned = <<>>
    /\ children = 0
    /\ exitCode = -1
    /\ log = <<>>
    /\ wiz = NoWizard
    /\ saved = Undefined
    /\ outcome = Undefined
    /\ thrown = Null
    /\ fsOps = <<>>
    /\ heap = <<>>

\* initCommand: the existence check, then the file is written, or the write
\* throws and the catch exits
InitCommand ==
    /\ pc = "initCommand"
    /\ IF ExistsSync(written)
       THEN /\ fsOps' = <<"existsSync">>
            /\ Exit(1)
            /\ UNCHANGED <<config, written, thrown>>
       ELSE /\ fsOps' = <<"existsSync", "writeFileSync">>
            /\ config' = IF Truthy(options.full) THEN generateFullConfig ELSE minimalConfig
            /\ IF cmdLine.writable
               THEN /\ written' = JSONstringify(config')
                    /\ Exit(0)
                    /\ UNCHANGED thrown
               ELSE /\ thrown' = Str(<<"ENOENT">>)
                    /\ Exit(1)
                    /\ UNCHANGED written
    /\ UNCHANGED <<errors, dataUnits, filtered, exportOptions, args, options, spawned,
                   children, log, wiz, saved, cmdLine, outcome, heap>>

NextInit == InitCommand

SpecInit == InitInit /\ [][NextInit]_vars

\* C26: when a file exists at the output path, init exits with code 1 and
\* the file has the content it had; a configuration is written only when no
\* file was at the path.
C26_InitRefusesToOverwrite ==
    pc = "exited" =>
        /\ cmdLine.existing # NoFile =>
              (exitCode = 1 /\ written = cmdLine.existing /\ ~Includes(fsOps, "writeFileSync"))
        /\ written # cmdLine.existing =>
              (cmdLine.existing = NoFile /\ exitCode = 0)

\* init --full on a path where a configuration file is: refused
C26_Witness ==
    /\ pc = "exited"
    /\ exitCode = 1
    /\ cmdLine.full
    /\ cmdLine.writable
    /\ cmdLine.existing \notin {NoFile, Garbage}
    /\ written = cmdLine.existing

(***************************************************************************)
(* Properties of the wizard                                                *)
(***************************************************************************)
\* The state of the wizard a step belongs to: 1 SelectGlobalData,
\* 2 SelectSites, 3 SelectSiteData, 4 OutputOptions, 5 OptionalSave.
WizardState(step) ==
    CASE step = "selectGlobalData" -> 1
      [] step \in {"confirmFetchSites", "fetchAvailableSites", "selectSites", "inputSites"} -> 2
      [] step \in {"confirmSameData", "selectSiteData", "selectSiteDataFor"} -> 3
      [] step \in {"inputOutputDir", "inputArchiveName", "confirmKeepArchive"} -> 4
      [] step \in {"confirmSave", "inputSavePath"} -> 5
      [] OTHER -> 0

\* the states of the wizard in the order its steps were taken
WizardStates ==
    LET steps == SelectSeq(log, LAMBDA entry : WizardState(entry.step) > 0)
    IN [j \in 1..Len(steps) |-> WizardState(steps[j].step)]

\* the wizard has just returned its configuration (Done)
WizardDone == Truthy(options.interactive) /\ pc = "getInstanceInfo"

\* no state is entered again once left
NeverBack(states) == \A j \in 1..Len(states) - 1 : states[j] <= states[j + 1]

\* a prompt waits for its answer with no child running
OnePromptOutstanding == pc \in WizardPrompts => children = 0

\* C27 as stated: every completed run of the wizard passes through
\* SelectGlobalData, SelectSites, SelectSiteData, OutputOptions and
\* OptionalSave in that order before Done, enters no state again, and has at
\* most one prompt outstanding.
C27_AllStatesInOrder ==
    /\ OnePromptOutstanding
    /\ WizardDone =>
          /\ NeverBack(WizardStates)
          /\ Range(WizardStates) = {1, 2, 3, 4, 5}

\* C27: every completed run of the wizard passes through SelectGlobalData,
\* SelectSites, SelectSiteData exactly when a site was selected,
\* OutputOptions and OptionalSave in that order before Done, enters no state
\* again, and has at most one prompt outstanding.
C27_StatesInOrderSiteDataIfSites ==
    /\ OnePromptOutstanding
    /\ WizardDone =>
          /\ NeverBack(WizardStates)
          /\ Range(WizardStates) \ {3} = {1, 2, 4, 5}
          /\ 3 \in Range(WizardStates) <=> Len(ObjectKeys(Get(config, "sites"))) > 0

\* a run through every state, with a prompt per site, has completed
C27_Witness ==
    /\ WizardDone
    /\ Len(ObjectKeys(Get(config, "sites"))) = 2
    /\ \E j \in 1..Len(log) : log[j].step = "selectSiteDataFor"
    /\ \E j \in 1..Len(log) : log[j].step = "inputSavePath"

\* the site-list fetch gave no site: the child failed to start, ended with a
\* code other than 0, or printed something unparsable, of another shape, or
\* an empty list
FetchFailed(result) ==
    \/ result.rejected
    \/ result.code # 0
    \/ JSONparseThrows(result.stdout)
    \/ Get(JSONparse(result.stdout), "data").t # "array"
    \/ Len(Get(JSONparse(result.stdout), "data").e) = 0

\* the wizard waits at the manual site-entry prompt
AtManualEntry == pc = "inputSites" /\ exitCode = -1 /\ children = 0 /\ thrown = Null

\* C28: a site-list fetch that fails in any way (child error, code other
\* than 0, unparsable or wrongly shaped output, empty list) yields no site
\* and leaves the wizard at the manual site-entry prompt, still running and
\* with nothing thrown; declining the fetch leads to the same prompt.
C28_FetchFailureFallsBackToManual ==
    /\ \A result \in SitesListResults :
          FetchFailed(result) <=> fetchAvailableSites(result) \in {Null, Arr(<<>>)}
    /\ (Len(log) > 0 /\ log[Len(log)].step = "fetchAvailableSites") =>
          IF wiz.availableSites \in {Null, Arr(<<>>)}
          THEN AtManualEntry
          ELSE pc = "selectSites" /\ log[Len(log)].ok
    /\ (Len(log) > 0 /\ log[Len(log)] = Step("confirmFetchSites", TRUE)) =>
          \/ pc = "fetchAvailableSites" /\ children = 1
          \/ AtManualEntry

\* a failed fetch has left the wizard at the manual prompt
C28_Witness ==
    /\ Len(log) > 0
    /\ log[Len(log)] = Step("fetchAvailableSites", FALSE)
    /\ AtManualEntry

(***************************************************************************)
(* exportCommand, file mode, from the loaded data units to the arguments   *)
(* of the job export, on trees with customer lists                         *)
(***************************************************************************)
\* The customer_lists member a tree may have, or none.
CustomerListsMembers ==
    {<<>>,
     <<Entry("customer_lists", Obj(<<>>))>>,
     <<Entry("customer_lists", Obj(<<Entry("customers_1", Bool(TRUE))>>))>>,
     <<Entry("customer_lists", Obj(<<Entry("customers_1", Bool(FALSE))>>))>>,
     <<Entry("customer_lists", Obj(<<Entry("customers_1", Bool(TRUE)),
                                     Entry("customers_2", Bool(TRUE))>>))>>}

\* The other members the tree may have.
OtherUnitsMembers ==
    {g \o st \o il :
        g \in CompileGlobalMembers,
        st \in {<<>>, <<Entry("sites", Obj(<<Entry("RefArch",
                                  Obj(<<Entry("content", Bool(TRUE))>>))>>))>>},
        il \in CompileInventoryMembers}

InitCustomerLists ==
    /\ pc = "written"
    /\ config = Undefined
    /\ errors = <<>>
    /\ dataUnits = Undefined
    /\ filtered = Undefined
    /\ written \in {Obj(o \o cl) : o \in OtherUnitsMembers, cl \in CustomerListsMembers}
    /\ exportOptions \in CompileOptions
    /\ args = <<>>
    /\ NoCommand

\* dataUnits = filterEnabledDataUnits(loadedConfig.dataUnits)
FilterLoadedUnits ==
    /\ pc = "written"
    /\ dataUnits' = filterEnabledDataUnits(JSONparse(written))
    /\ pc' = "loaded"
    /\ UNCHANGED <<config, errors, filtered, written, exportOptions, args, cmdVars>>

\* if (Object.keys(dataUnits).length === 0) process.exit(1)
CheckDataUnits ==
    /\ pc = "loaded"
    /\ IF Len(ObjectKeys(dataUnits)) = 0
       THEN Fail(<<Step("dataUnits", FALSE)>>)
       ELSE pc' = "checked" /\ UNCHANGED <<exitCode, log>>
    /\ UNCHANGED <<config, errors, dataUnits, filtered, written, exportOptions, args,
                   options, spawned, children, wiz, saved, ioVars>>

\* executeSiteExport: args = buildExportArgs(dataUnits, exportOptions)
CompileExport ==
    /\ pc = "checked"
    /\ args' = buildExportArgs(dataUnits, exportOptions)
    /\ pc' = "compiled"
    /\ UNCHANGED <<config, errors, dataUnits, filtered, written, exportOptions, cmdVars>>

NextCustomerLists == FilterLoadedUnits \/ CheckDataUnits \/ CompileExport

SpecCustomerLists == InitCustomerLists /\ [][NextCustomerLists]_vars

\* the tree du with its customer_lists member replaced by the member given
WithCustomerLists(du, member) ==
    Obj(SelectSeq(du.e, LAMBDA ent : ent.k # "customer_lists") \o member)

\* the flags that select data
DataSelectionFlags ==
    {Tok("--global-data"), Tok("--site"), Tok("--site-data"), Tok("--inventory-list"),
     Tok("--customer-list"), Tok("--data-units")}

CarriesInstance(argv) ==
    \E j \in 1..Len(argv) - 1 : argv[j] = Tok("--instance") /\ argv[j + 1] = options.instance.s

\* the invocations of the probe and the instance-info query, and of the job
\* export
SetupConfigInvocations ==
    {i \in 1..Len(spawned) :
        Len(spawned[i]) >= 2 /\ spawned[i][1] = Tok("setup") /\ spawned[i][2] = Tok("config")}

JobExportInvocations ==
    {i \in 1..Len(spawned) :
        Len(spawned[i]) >= 2 /\ spawned[i][1] = Tok("job") /\ spawned[i][2] = Tok("export")}

\* C30: when an instance identifier is given to the export command, the
\* connectivity probe, the instance-info query and the job export are all
\* invoked with --instance <identifier>.
C30_InstanceOnEveryInvocation ==
    Truthy(options.instance) =>
        \A i \in SetupConfigInvocations \cup JobExportInvocations : CarriesInstance(spawned[i])

\* an export for a named instance: the probe went without --instance, the
\* instance-info query and the job export with it
C30_Witness ==
    /\ Truthy(options.instance)
    /\ Cardinality(SetupConfigInvocations) = 2
    /\ \E i \in SetupConfigInvocations : ~CarriesInstance(spawned[i])
    /\ \E i \in SetupConfigInvocations : CarriesInstance(spawned[i])
    /\ JobExportInvocations # {}
    /\ \A i \in JobExportInvocations : CarriesInstance(spawned[i])

====
